---- MODULE Spec2Model ----
(***************************************************************************)
(* Model of "Segundo examen/markov_cadena.py": the dense matrix            *)
(* primitives, the Gaussian-elimination solver with partial pivoting and   *)
(* the three Markov-chain analyses built on it.                            *)
(*                                                                         *)
(* Numbers.  A Python float is modelled as a rational <<num, den>> in      *)
(* lowest terms with den > 0; float('inf') is the pair <<1, 0>>.  The      *)
(* variable arith selects how the result of an arithmetic operation is     *)
(* stored: "exact" keeps the rational (the real-number reading of the      *)
(* formulas), "float" rounds it to MantBits significant bits, to nearest,  *)
(* ties to even, as IEEE-754 does with 53 bits.                            *)
(*                                                                         *)
(* Indices.  Python lists are 0-based, TLA+ sequences 1-based: state,      *)
(* row and column i of the source is index i+1 here.                       *)
(*                                                                         *)
(* Specifications.  Spec: one call of the solver, of an analysis or of     *)
(* potencia_matriz, in exact arithmetic.  SpecFloat: the solver and the    *)
(* power under both arithmetics.  SpecUtil: direct calls of the two        *)
(* products on operands of any shape.  SpecMenu: the interactive menu.     *)
(***************************************************************************)
EXTENDS Integers, Sequences, FiniteSets, TLC

VARIABLES
    arith,  \* "exact" | "float": how arithmetic results are stored
    fn,     \* the function the caller invoked ("none" before a call)
    P,      \* transition matrix handed to an analysis (<<>> if none)
    nexp,   \* exponent handed to potencia_matriz
    A,      \* coefficient matrix handed to resolver_sistema_lineal
    b,      \* right-hand side handed to resolver_sistema_lineal
    M,      \* the solver's working copy of A
    v,      \* the solver's working copy of b
    k,      \* pivot loop index of the solver
    x,      \* solution vector filled by back-substitution
    fi,     \* back-substitution loop index
    jd,     \* destination state of the first-passage loop
    Mfp,    \* first-passage matrix being filled column by column
    R,      \* accumulator of potencia_matriz
    it,     \* multiplications performed by potencia_matriz
    pc,     \* control position
    ret,    \* outcome of the outermost call
    verbose,\* the verbose flag of the call
    traza,  \* records printed: the verbose prints of the core functions
            \* and, at a prompt of the menu, the menu's last message
    idM,    \* identities of the row objects of M (1..n are the rows of A)
    idV,    \* identity of the list object v ("b" is the caller's b)
    idR,    \* identities of the row objects of R (1..n are the rows of P)
    U,      \* left operand of a direct call to multiplicar_matrices
    vec,    \* left operand of a direct call to multiplicar_vector_matriz
    W,      \* right operand of a direct call to either
    sesion, \* "none" outside the menu; "menu", "salida", "abortada" in it
    cola,   \* procedures option 6 of the menu has still to run
    tareas, \* per destination, how far its system has got when the
            \* destinations are taken in a free order
    nEstados, \* n read by leer_matriz_transicion
    entrada \* the line last typed at a prompt of leer_matriz_transicion

vars == <<arith, fn, P, nexp, A, b, M, v, k, x, fi, jd, Mfp, R, it, idR, pc,
          ret, verbose, traza, idM, idV, U, vec, W, tareas, nEstados, entrada,
          sesion, cola>>

\* What no step of a core function changes: the flag and the operands it was
\* called with, and the state of the menu.
entorno == <<verbose, U, vec, W, tareas, nEstados, entrada, sesion, cola>>

-----------------------------------------------------------------------------
(* Bounds of the model *)

\* Entries of an input transition matrix are multiples of 1/Den in [0, 1].
Den == 2
\* Entries of a system handed directly to the solver are integers in
\* -MaxEntry .. MaxEntry.
MaxEntry == 2
\* Largest exponent handed to potencia_matriz.
MaxPow == 3
\* Significant bits kept by the rounded arithmetic (53 in an IEEE-754 double).
MantBits == 5

\* Sizes of the input transition matrices.
Sizes == {1, 2, 3}
\* Entries of the 3 x 3 systems solved under both arithmetics.
Entradas3 == {0, 1, 3}
\* Entries of the operands of the matrix utilities.
EntradasUtil == {-1, 0, 2}

-----------------------------------------------------------------------------
(* Rational numbers *)

RECURSIVE GCD(_, _)
GCD(a, c) == IF c = 0 THEN a ELSE GCD(c, a % c)

Abs(i) == IF i < 0 THEN -i ELSE i

\* The rational n/d, d # 0, in lowest terms with a positive denominator.
NormDe(n, d) ==
    LET s == IF d < 0 THEN -1 ELSE 1
        g == GCD(Abs(n), Abs(d))
    IN  <<(s * n) \div g, (s * d) \div g>>

\* The same, with each operand evaluated once, whatever the context the
\* expression is evaluated in.
Norm(n, d) == CHOOSE r \in {NormDe(nn, dd) : nn \in {n}, dd \in {d}} : TRUE

Zero == <<0, 1>>
One == <<1, 1>>
Inf == <<1, 0>>

RECURSIVE Pow2(_)
Pow2(e) == IF e = 0 THEN 1 ELSE 2 * Pow2(e - 1)

\* Nearest value with MantBits significant bits to the positive rational
\* a/d, times mul/dv (the power of two taken out while scaling).
RECURSIVE RoundPos(_, _, _, _)
RoundPos(a, d, mul, dv) ==
    IF a >= Pow2(MantBits) * d THEN RoundPos(a, 2 * d, 2 * mul, dv)
    ELSE IF a < Pow2(MantBits - 1) * d THEN RoundPos(2 * a, d, mul, 2 * dv)
    ELSE LET m == a \div d
             r == a % d
             up == (2 * r > d) \/ (2 * r = d /\ m % 2 = 1)
         IN  Norm((IF up THEN m + 1 ELSE m) * mul, dv)

Round(q) ==
    IF q[1] = 0 THEN Zero
    ELSE LET r == RoundPos(Abs(q[1]), q[2], 1, 1)
         IN  IF q[1] < 0 THEN <<-r[1], r[2]>> ELSE r

\* The stored result of an arithmetic operation whose real value is q.
Fl(q) ==
    CHOOSE r \in {IF arith = "float" THEN Round(z) ELSE z : z \in {q}} : TRUE

RAdd(p, q) == Fl(Norm(p[1] * q[2] + q[1] * p[2], p[2] * q[2]))
RSub(p, q) == Fl(Norm(p[1] * q[2] - q[1] * p[2], p[2] * q[2]))
RMul(p, q) == Fl(Norm(p[1] * q[1], p[2] * q[2]))
RDiv(p, q) == Fl(Norm(p[1] * q[2], p[2] * q[1]))
RAbs(q) == <<Abs(q[1]), q[2]>>
RGt(p, q) == p[1] * q[2] > q[1] * p[2]

\* Real-number arithmetic, used only to state properties.
XAdd(p, q) == Norm(p[1] * q[2] + q[1] * p[2], p[2] * q[2])
XSub(p, q) == Norm(p[1] * q[2] - q[1] * p[2], p[2] * q[2])
XMul(p, q) == Norm(p[1] * q[1], p[2] * q[2])

-----------------------------------------------------------------------------
(* Outcomes of a call: a returned value or a raised exception *)

NoRet == [kind |-> "none", val |-> <<>>, err |-> ""]
Value(val) == [kind |-> "value", val |-> val, err |-> ""]
Raise(msg) == [kind |-> "error", val |-> <<>>, err |-> msg]

ErrDim == "ValueError: Dimensiones incompatibles para multiplicar matrices"
ErrNeg == "ValueError: n debe ser >= 0"
ErrSingular == "ValueError: Matriz singular, no se puede resolver el sistema"
ErrDimVector == "ValueError: Dimensiones incompatibles vector-matriz"

-----------------------------------------------------------------------------
(* Matrix utilities *)

Rows(Mx) == Len(Mx)
Cols(Mx) == Len(Mx[1])

copiar_matriz(Mx) ==
    [i \in 1..Rows(Mx) |-> [j \in 1..Cols(Mx) |-> Mx[i][j]]]

Columna(Mx, j) == [i \in 1..Rows(Mx) |-> Mx[i][j]]

\* suma = 0.0; for k in range(n): suma += u[k] * w[k]
RECURSIVE SumaProductos(_, _, _, _)
SumaProductos(u, w, i, suma) ==
    IF i > Len(u) THEN suma
    ELSE SumaProductos(u, w, i + 1, RAdd(suma, RMul(u[i], w[i])))

\* Mutation of multiplicar_matrices: the indices of B are exchanged.
multiplicar_matrices_Transpuesta(Am, Bm) ==
    IF Cols(Am) # Rows(Bm) THEN Raise(ErrDim)
    ELSE Value([i \in 1..Rows(Am) |->
                  [j \in 1..Cols(Bm) |-> SumaProductos(Am[i], Bm[j], 1, Zero)]])

\* Mutation of multiplicar_matrices: the inner loop is range(1, n).
multiplicar_matrices_SinPrimero(Am, Bm) ==
    IF Cols(Am) # Rows(Bm) THEN Raise(ErrDim)
    ELSE Value([i \in 1..Rows(Am) |->
                  [j \in 1..Cols(Bm) |->
                     SumaProductos(Am[i], Columna(Bm, j), 2, Zero)]])

multiplicar_matrices(Am, Bm) ==
    IF Cols(Am) # Rows(Bm) THEN Raise(ErrDim)
    ELSE Value([i \in 1..Rows(Am) |->
                  [j \in 1..Cols(Bm) |->
                     SumaProductos(Am[i], Columna(Bm, j), 1, Zero)]])

\* Mutation of Identidad: the off-diagonal entries are 1.0 too.
Identidad_Unos(n) == [i \in 1..n |-> [j \in 1..n |-> One]]

Identidad(n) == [i \in 1..n |-> [j \in 1..n |-> IF i = j THEN One ELSE Zero]]

\* R = copiar_matriz(P); n - 1 times: R = multiplicar_matrices(R, P)
RECURSIVE Multiplicar_sucesivo(_, _, _)
Multiplicar_sucesivo(Rm, Pm, veces) ==
    IF veces = 0 THEN Rm
    ELSE Multiplicar_sucesivo(multiplicar_matrices(Rm, Pm).val, Pm, veces - 1)

potencia_matriz(Pm, n) ==
    IF n < 0 THEN Raise(ErrNeg)
    ELSE IF n = 0 THEN Value(Identidad(Len(Pm)))
    ELSE Value(Multiplicar_sucesivo(copiar_matriz(Pm), Pm, n - 1))

\* Mutation of multiplicar_vector_matriz: suma = 0.0 is set once, before the
\* loop over the columns, and keeps accumulating.
RECURSIVE SumaSinReiniciar(_, _, _)
SumaSinReiniciar(u, Mx, j) ==
    IF j = 0 THEN Zero
    ELSE SumaProductos(u, Columna(Mx, j), 1, SumaSinReiniciar(u, Mx, j - 1))

multiplicar_vector_matriz_SinReiniciar(u, Mx) ==
    IF Len(u) # Rows(Mx) THEN Raise(ErrDimVector)
    ELSE Value([j \in 1..Cols(Mx) |-> SumaSinReiniciar(u, Mx, j)])

multiplicar_vector_matriz(u, Mx) ==
    IF Len(u) # Rows(Mx) THEN Raise(ErrDimVector)
    ELSE Value([j \in 1..Cols(Mx) |-> SumaProductos(u, Columna(Mx, j), 1, Zero)])

-----------------------------------------------------------------------------
(* Gaussian elimination: the pieces of one pivot step and of one           *)
(* back-substitution step of resolver_sistema_lineal                        *)

\* Mutation of BuscarPivote: the comparison is >=, a later row replaces the
\* candidate on a tie.
RECURSIVE BuscarPivote_UltimoEmpate(_, _, _, _, _)
BuscarPivote_UltimoEmpate(Mx, kk, i, max_fila, max_valor) ==
    IF i > Len(Mx) THEN <<max_fila, max_valor>>
    ELSE IF ~RGt(max_valor, RAbs(Mx[i][kk]))
         THEN BuscarPivote_UltimoEmpate(Mx, kk, i + 1, i, RAbs(Mx[i][kk]))
         ELSE BuscarPivote_UltimoEmpate(Mx, kk, i + 1, max_fila, max_valor)

\* Mutation of BuscarPivote: the entry is compared without abs().
RECURSIVE BuscarPivote_SinAbs(_, _, _, _, _)
BuscarPivote_SinAbs(Mx, kk, i, max_fila, max_valor) ==
    IF i > Len(Mx) THEN <<max_fila, max_valor>>
    ELSE IF RGt(Mx[i][kk], max_valor)
         THEN BuscarPivote_SinAbs(Mx, kk, i + 1, i, RAbs(Mx[i][kk]))
         ELSE BuscarPivote_SinAbs(Mx, kk, i + 1, max_fila, max_valor)

\* The pivot search: the first row from kk on whose entry in column kk has
\* the largest absolute value (a later row replaces the candidate only when
\* strictly larger).  Returns <<max_fila, max_valor>>.
RECURSIVE BuscarPivote(_, _, _, _, _)
BuscarPivote(Mx, kk, i, max_fila, max_valor) ==
    IF i > Len(Mx) THEN <<max_fila, max_valor>>
    ELSE IF RGt(RAbs(Mx[i][kk]), max_valor)
         THEN BuscarPivote(Mx, kk, i + 1, i, RAbs(Mx[i][kk]))
         ELSE BuscarPivote(Mx, kk, i + 1, max_fila, max_valor)

\* Mutation of Pivote: no search, the diagonal entry is the pivot.
Pivote_SinBusqueda(Mx, kk) == <<kk, RAbs(Mx[kk][kk])>>

Pivote(Mx, kk) == BuscarPivote(Mx, kk, kk + 1, kk, RAbs(Mx[kk][kk]))

\* Mutation of Intercambiar: s[a] = s[c] alone, the old s[a] is lost.
Intercambiar_SinVuelta(s, a, c) ==
    [i \in 1..Len(s) |-> IF i = a THEN s[c] ELSE s[i]]

\* s[a], s[c] = s[c], s[a]
Intercambiar(s, a, c) ==
    [i \in 1..Len(s) |-> IF i = a THEN s[c] ELSE IF i = c THEN s[a] ELSE s[i]]

Factor(Mx, kk, i) == RDiv(Mx[i][kk], Mx[kk][kk])

\* Mutation of EliminarM: the multiple of the pivot row is added.
EliminarM_Suma(Mx, kk) ==
    [i \in 1..Len(Mx) |->
       IF i > kk
       THEN [j \in 1..Len(Mx) |->
               IF j >= kk
               THEN RAdd(Mx[i][j], RMul(Factor(Mx, kk, i), Mx[kk][j]))
               ELSE Mx[i][j]]
       ELSE Mx[i]]

\* Mutation of EliminarM: the inner loop starts right of the pivot column
\* (for j in range(k + 1, n)), so the entry under the pivot is not cleared.
EliminarM_DesdeSiguiente(Mx, kk) ==
    [i \in 1..Len(Mx) |->
       IF i > kk
       THEN [j \in 1..Len(Mx) |->
               IF j > kk
               THEN RSub(Mx[i][j], RMul(Factor(Mx, kk, i), Mx[kk][j]))
               ELSE Mx[i][j]]
       ELSE Mx[i]]

\* Rows below kk: row i minus factor times row kk, on columns kk..n.
EliminarM(Mx, kk) ==
    [i \in 1..Len(Mx) |->
       IF i > kk
       THEN [j \in 1..Len(Mx) |->
               IF j >= kk
               THEN RSub(Mx[i][j], RMul(Factor(Mx, kk, i), Mx[kk][j]))
               ELSE Mx[i][j]]
       ELSE Mx[i]]

EliminarV(Mx, vx, kk) ==
    [i \in 1..Len(Mx) |->
       IF i > kk THEN RSub(vx[i], RMul(Factor(Mx, kk, i), vx[kk])) ELSE vx[i]]

\* Mutation of SumaAtras: the loop over the columns right of the diagonal
\* does not run.
SumaAtras_Vacia(fila, xs, j, suma) == suma

\* suma = 0.0; for j in range(i + 1, n): suma += M[i][j] * x[j]
RECURSIVE SumaAtras(_, _, _, _)
SumaAtras(fila, xs, j, suma) ==
    IF j > Len(fila) THEN suma
    ELSE SumaAtras(fila, xs, j + 1, RAdd(suma, RMul(fila[j], xs[j])))

\* Mutation of Despejar: the division by the diagonal entry is left out.
Despejar_SinDividir(Mx, vx, xs, i) ==
    RSub(vx[i], SumaAtras(Mx[i], xs, i + 1, Zero))

\* x[i] = (v[i] - suma) / M[i][i]
Despejar(Mx, vx, xs, i) ==
    RDiv(RSub(vx[i], SumaAtras(Mx[i], xs, i + 1, Zero)), Mx[i][i])

-----------------------------------------------------------------------------
(* The linear systems the analyses build *)

Ceros(n) == [i \in 1..n |-> Zero]

\* Mutation of SistemaEstacionarioA: P is not transposed.
SistemaEstacionarioA_SinTransponer(Pm) ==
    LET n == Len(Pm)
    IN  [j \in 1..n |->
           IF j < n
           THEN [i \in 1..n |-> IF i = j THEN RSub(Pm[j][i], One) ELSE Pm[j][i]]
           ELSE [i \in 1..n |-> One]]

\* Rows j = 0..n-2: A[j][i] = P[i][j], minus 1.0 on the diagonal; last row
\* all ones; b = (0, ..., 0, 1).
SistemaEstacionarioA(Pm) ==
    LET n == Len(Pm)
    IN  [j \in 1..n |->
           IF j < n
           THEN [i \in 1..n |-> IF i = j THEN RSub(Pm[i][j], One) ELSE Pm[i][j]]
           ELSE [i \in 1..n |-> One]]

\* Mutation of SistemaEstacionarioB: the right-hand side of the
\* normalisation row is 0.0.
SistemaEstacionarioB_Ceros(Pm) == [j \in 1..Len(Pm) |-> Zero]

SistemaEstacionarioB(Pm) ==
    [j \in 1..Len(Pm) |-> IF j < Len(Pm) THEN Zero ELSE One]

\* Mutation of SistemaPasadaA: the diagonal entry is -P[i][i].
SistemaPasadaA_SinUno(Pm, j) ==
    LET n == Len(Pm)
    IN  [i \in 1..n |->
           IF i = j
           THEN [l \in 1..n |-> IF l = j THEN One ELSE Zero]
           ELSE [l \in 1..n |->
                   IF l = j THEN Zero ELSE <<-Pm[i][l][1], Pm[i][l][2]>>]]

\* Destination j: row j is the unit equation m_jj = 0; row i # j is
\* m_ij - sum_{l # j} P[i][l] m_lj = 1.
SistemaPasadaA(Pm, j) ==
    LET n == Len(Pm)
    IN  [i \in 1..n |->
           IF i = j
           THEN [l \in 1..n |-> IF l = j THEN One ELSE Zero]
           ELSE [l \in 1..n |->
                   IF l = j THEN Zero
                   ELSE IF l = i THEN RSub(One, Pm[i][l])
                   ELSE <<-Pm[i][l][1], Pm[i][l][2]>>]]

\* Mutation of SistemaPasadaB: the unit equation has right-hand side 1.0.
SistemaPasadaB_Unos(Pm, j) == [i \in 1..Len(Pm) |-> One]

SistemaPasadaB(Pm, j) ==
    [i \in 1..Len(Pm) |-> IF i = j THEN Zero ELSE One]

\* Mutation of Tiempos: the time is pi[i] instead of 1.0 / pi[i].
Tiempos_SinInvertir(pi) ==
    [i \in 1..Len(pi) |-> IF pi[i] = Zero THEN Inf ELSE pi[i]]

\* Mutation of Tiempos: a state of probability zero gets the time 0.0
\* instead of float("inf").
Tiempos_CeroSinInfinito(pi) ==
    [i \in 1..Len(pi) |-> IF pi[i] = Zero THEN Zero ELSE RDiv(One, pi[i])]

\* tiempos[i] = inf if pi[i] == 0 else 1.0 / pi[i]
Tiempos(pi) ==
    [i \in 1..Len(pi) |-> IF pi[i] = Zero THEN Inf ELSE RDiv(One, pi[i])]

\* for i in range(n): M[i][j] = m_col[i]
PonerColumna(Mx, j, col) ==
    [i \in 1..Len(Mx) |-> [l \in 1..Len(Mx) |-> IF l = j THEN col[i] ELSE Mx[i][l]]]

-----------------------------------------------------------------------------
(* The solver and the analyses as functions of their arguments: what a     *)
(* call returns or raises                                                  *)

\* The pivot loop from column kk on: the triangular system <<M, v>> reached,
\* or <<>> if some pivot column holds only zeros.
RECURSIVE Eliminacion(_, _, _)
Eliminacion(Mx, vx, kk) ==
    IF kk > Len(Mx) THEN <<Mx, vx>>
    ELSE LET pv == Pivote(Mx, kk)
             Ms == Intercambiar(Mx, kk, pv[1])
             vs == Intercambiar(vx, kk, pv[1])
         IN  IF pv[2] = Zero THEN <<>>
             ELSE Eliminacion(EliminarM(Ms, kk), EliminarV(Ms, vs, kk), kk + 1)

\* The back-substitution loop from row i up to the first row.
RECURSIVE Sustitucion(_, _, _, _)
Sustitucion(Mx, vx, xs, i) ==
    IF i = 0 THEN xs
    ELSE Sustitucion(Mx, vx, [xs EXCEPT ![i] = Despejar(Mx, vx, xs, i)], i - 1)

resolver_sistema_lineal(Am, bm) ==
    LET t == Eliminacion(copiar_matriz(Am), bm, 1)
    IN  IF t = <<>> THEN Raise(ErrSingular)
        ELSE Value(Sustitucion(t[1], t[2], Ceros(Len(Am)), Len(Am)))

distribucion_estacionaria(Pm) ==
    resolver_sistema_lineal(SistemaEstacionarioA(Pm), SistemaEstacionarioB(Pm))

tiempos_recurrencia(Pm) ==
    LET pi == distribucion_estacionaria(Pm)
    IN  IF pi.kind = "error" THEN pi ELSE Value(<<pi.val, Tiempos(pi.val)>>)

\* The loop over the destinations from j on, Mx being the matrix filled so
\* far: the first system that cannot be solved ends the call.
RECURSIVE ColumnasPasada(_, _, _)
ColumnasPasada(Pm, Mx, j) ==
    IF j > Len(Pm) THEN Value(Mx)
    ELSE LET m_col == resolver_sistema_lineal(SistemaPasadaA(Pm, j),
                                              SistemaPasadaB(Pm, j))
         IN  IF m_col.kind = "error" THEN m_col
             ELSE ColumnasPasada(Pm, PonerColumna(Mx, j, m_col.val), j + 1)

matriz_tiempos_primera_pasad(Pm) ==
    ColumnasPasada(Pm, [i \in 1..Len(Pm) |-> Ceros(Len(Pm))], 1)

-----------------------------------------------------------------------------
(* Identity of the list objects the solver works on.  A Python list is a    *)
(* reference: a write into a row of M that is the same object as a row of  *)
(* the caller's A is a write into A.                                       *)

\* Mutation of FilasCopia: copia.append(M[i]), the rows of the copy are the
\* rows of the original.
FilasCopia_Compartidas(Mx) == [i \in 1..Rows(Mx) |-> i]

\* copiar_matriz appends to copia a new list fila_nueva for every row: the
\* rows of the copy of a matrix whose rows are the objects 1..n are the new
\* objects n+1..2n.
FilasCopia(Mx) == [i \in 1..Rows(Mx) |-> Rows(Mx) + i]

\* v = b[:] is a new list object.
CopiaVector == "v"

\* The caller's matrix after the rows of Mx, the objects ids, were written.
EscribirFilas(Am, Mx, ids) ==
    [r \in 1..Len(Am) |->
       IF \E i \in 1..Len(ids) : ids[i] = r
       THEN Mx[CHOOSE i \in 1..Len(ids) : ids[i] = r]
       ELSE Am[r]]

\* The caller's vector after the list object id was written with vx.
EscribirVector(bm, vx, id) == IF id = "b" THEN vx ELSE bm

-----------------------------------------------------------------------------
(* Verbose output *)

\* if verbose: print(...), for each of the records evs.
Traza(tr, evs) == IF verbose THEN tr \o evs ELSE tr

\* abs(factor) > 1e-10, computed without leaving the 32-bit integers:
\* |n|/d > 1/10^10 iff |n| > floor(d / 10^10).
FactorVisible(f) == Abs(f[1]) > (f[2] \div 100000) \div 100000

\* One record per row below the pivot whose factor is printed.
RECURSIVE TrazaFilas(_, _, _)
TrazaFilas(Mx, kk, i) ==
    IF i > Len(Mx) THEN <<>>
    ELSE (IF FactorVisible(Factor(Mx, kk, i)) THEN <<"fila">> ELSE <<>>)
            \o TrazaFilas(Mx, kk, i + 1)

\* The records one iteration of the pivot loop prints: the swap if there was
\* one, the pivot, the rows changed, the state reached and, after the last
\* iteration, the triangular system and the start of the back-substitution.
TrazaPivote(Ms, kk, max_fila) ==
    (IF max_fila # kk THEN <<"intercambio">> ELSE <<>>)
        \o <<"pivote">> \o TrazaFilas(Ms, kk, kk + 1) \o <<"estado">>
        \o (IF kk = Len(Ms) THEN <<"triangular", "atras">> ELSE <<>>)

-----------------------------------------------------------------------------
(* Inputs *)

RECURSIVE SumaEnteros(_, _)
SumaEnteros(r, i) == IF i = 0 THEN 0 ELSE r[i] + SumaEnteros(r, i - 1)

\* Rows of n probabilities k/d that add up to 1.
FilasEstocasticas(n, d) ==
    {[i \in 1..n |-> Norm(r[i], d)] :
        r \in {q \in [1..n -> 0..d] : SumaEnteros(q, n) = d}}

\* Rows of zeros and ones: those that do not add up to 1 are the rows
\* leer_matriz_transicion accepts with a warning.
FilasBinarias(n) == {[i \in 1..n |-> <<r[i], 1>>] : r \in [1..n -> {0, 1}]}

MatricesEntrada ==
    UNION {[1..n -> FilasEstocasticas(n, Den) \cup FilasBinarias(n)] : n \in Sizes}

\* The two chains worked out by hand: the two-state chain
\* [[0.5, 0.5], [0.2, 0.8]] and the three-state cycle.
Escenario2Estados == <<<<(<<1, 2>>), (<<1, 2>>)>>, <<(<<1, 5>>), (<<4, 5>>)>>>>
EscenarioCiclo ==
    <<<<Zero, One, Zero>>, <<Zero, Zero, One>>, <<One, Zero, Zero>>>>

\* Two-state chains on a finer grid, raised to powers under both arithmetics.
MatricesPotencia == [1..2 -> FilasEstocasticas(2, 3 * Den)]

\* fila = [float(x) for x in partes]: an entered number is stored as the
\* nearest representable value.
Leer(Pm) == [i \in 1..Len(Pm) |-> [j \in 1..Len(Pm) |-> Fl(Pm[i][j])]]

Enteros(S) == {<<e, 1>> : e \in S}

\* Systems handed directly to the solver: all 1 x 1 and 2 x 2 integer
\* systems with small entries.
SistemasEntrada ==
    UNION {[1..n -> [1..n -> Enteros(-MaxEntry..MaxEntry)]]
             \X [1..n -> Enteros(0..MaxEntry)] : n \in {1, 2}}

Sistemas3 ==
    [1..3 -> [1..3 -> Enteros(Entradas3)]] \X {<<One, Zero, Zero>>}

\* Operands of the direct calls to the matrix utilities: every matrix of one
\* or two rows and one or two columns, and every vector of one or two
\* components, with entries in EntradasUtil.
MatricesUtil ==
    UNION {[1..r -> [1..c -> Enteros(EntradasUtil)]] : r \in 1..2, c \in 1..2}
VectoresUtil == UNION {[1..m -> Enteros(EntradasUtil)] : m \in 1..2}

-----------------------------------------------------------------------------
(* State machine *)

InitCommon ==
    /\ fn = "none" /\ nexp = 0
    /\ M = <<>> /\ v = <<>> /\ k = 0 /\ x = <<>> /\ fi = 0
    /\ jd = 0 /\ Mfp = <<>> /\ R = <<>> /\ it = 0 /\ idR = <<>>
    /\ pc = "idle" /\ ret = NoRet
    /\ traza = <<>> /\ idM = <<>> /\ idV = "v"
    /\ cola = <<>>
    /\ tareas = <<>> /\ nEstados = 0 /\ entrada = <<>>

Init ==
    /\ arith = "exact"
    /\ verbose \in BOOLEAN
    /\ sesion = "none" /\ U = <<>> /\ vec = <<>> /\ W = <<>>
    /\ \/ /\ P \in MatricesEntrada \cup {Escenario2Estados, EscenarioCiclo}
          /\ A = <<>> /\ b = <<>>
       \/ P = <<>> /\ \E s \in SistemasEntrada : A = s[1] /\ b = s[2]
    /\ InitCommon

InitFloat ==
    /\ arith \in {"exact", "float"}
    /\ verbose = FALSE
    /\ sesion = "none" /\ U = <<>> /\ vec = <<>> /\ W = <<>>
    /\ \/ P = <<>> /\ \E s \in Sistemas3 \cup SistemasEntrada : A = s[1] /\ b = s[2]
       \/ A = <<>> /\ b = <<>>
          /\ \E m \in MatricesPotencia : P = Leer(m)
    /\ InitCommon

\* Entry of resolver_sistema_lineal: n = len(A); M = copiar_matriz(A);
\* v = b[:]; the pivot loop starts at the first column.  antes is what the
\* caller printed before the call.
EntrarGauss(Am, bm, antes) ==
    /\ A' = Am /\ b' = bm
    /\ M' = copiar_matriz(Am)
    /\ idM' = FilasCopia(Am)
    /\ v' = bm
    /\ idV' = CopiaVector
    /\ traza' = Traza(traza, antes \o <<"inicial">>)
    /\ k' = 1 /\ x' = <<>> /\ fi' = 0
    /\ pc' = "elim"

\* A caller invokes resolver_sistema_lineal(A, b) on its own system.
CallResolver ==
    /\ pc = "idle" /\ A # <<>>
    /\ fn' = "resolver"
    /\ EntrarGauss(A, b, <<>>)
    /\ UNCHANGED <<arith, P, nexp, jd, Mfp, R, it, idR, ret>>
    /\ UNCHANGED entorno

\* Mutation of GaussPivote: matriz_tiempos_primera_pasad wraps its call of
\* the solver in try/except and goes on with a column of zeros.
GaussPivote_Captura ==
    /\ pc = "elim"
    /\ LET n == Len(A)
           pv == Pivote(M, k)
           max_fila == pv[1]
           max_valor == pv[2]
           Ms == Intercambiar(M, k, max_fila)
           vs == Intercambiar(v, k, max_fila)
       IN  IF max_valor = Zero
           THEN /\ IF fn = "pasada"
                   THEN pc' = "solved" /\ x' = Ceros(n) /\ UNCHANGED ret
                   ELSE pc' = "done" /\ ret' = Raise(ErrSingular) /\ UNCHANGED x
                /\ UNCHANGED <<A, b, M, v, k, fi, idM, traza>>
           ELSE /\ M' = EliminarM(Ms, k)
                /\ v' = EliminarV(Ms, vs, k)
                /\ idM' = Intercambiar(idM, k, max_fila)
                /\ A' = EscribirFilas(A, M', idM')
                /\ b' = EscribirVector(b, v', idV)
                /\ traza' = Traza(traza, TrazaPivote(Ms, k, max_fila))
                /\ k' = k + 1
                /\ IF k = n
                   THEN pc' = "back" /\ x' = Ceros(n) /\ fi' = n
                   ELSE pc' = "elim" /\ UNCHANGED <<x, fi>>
                /\ UNCHANGED ret
    /\ UNCHANGED <<arith, fn, P, nexp, jd, Mfp, R, it, idR, idV>>
    /\ UNCHANGED entorno

\* Mutation of GaussPivote: the swap of v[k] and v[max_fila] is indented
\* under the `if verbose:` that follows it.
GaussPivote_IntercambioVerbose ==
    /\ pc = "elim"
    /\ LET n == Len(A)
           pv == Pivote(M, k)
           max_fila == pv[1]
           max_valor == pv[2]
           Ms == Intercambiar(M, k, max_fila)
           vs == IF verbose THEN Intercambiar(v, k, max_fila) ELSE v
       IN  IF max_valor = Zero
           THEN /\ pc' = "done"
                /\ ret' = Raise(ErrSingular)
                /\ UNCHANGED <<A, b, M, v, k, x, fi, idM, traza>>
           ELSE /\ M' = EliminarM(Ms, k)
                /\ v' = EliminarV(Ms, vs, k)
                /\ idM' = Intercambiar(idM, k, max_fila)
                /\ A' = EscribirFilas(A, M', idM')
                /\ b' = EscribirVector(b, v', idV)
                /\ traza' = Traza(traza, TrazaPivote(Ms, k, max_fila))
                /\ k' = k + 1
                /\ IF k = n
                   THEN pc' = "back" /\ x' = Ceros(n) /\ fi' = n
                   ELSE pc' = "elim" /\ UNCHANGED <<x, fi>>
                /\ UNCHANGED ret
    /\ UNCHANGED <<arith, fn, P, nexp, jd, Mfp, R, it, idR, idV>>
    /\ UNCHANGED entorno

\* Mutation of GaussPivote: the singularity test compares the pivot with a
\* tolerance (if max_valor <= tol: raise) instead of with 0.0.
GaussPivote_Tolerancia ==
    /\ pc = "elim"
    /\ LET n == Len(A)
           pv == Pivote(M, k)
           max_fila == pv[1]
           max_valor == pv[2]
           Ms == Intercambiar(M, k, max_fila)
           vs == Intercambiar(v, k, max_fila)
       IN  IF ~RGt(max_valor, <<1, 2>>)
           THEN /\ pc' = "done"
                /\ ret' = Raise(ErrSingular)
                /\ UNCHANGED <<A, b, M, v, k, x, fi, idM, traza>>
           ELSE /\ M' = EliminarM(Ms, k)
                /\ v' = EliminarV(Ms, vs, k)
                /\ idM' = Intercambiar(idM, k, max_fila)
                /\ A' = EscribirFilas(A, M', idM')
                /\ b' = EscribirVector(b, v', idV)
                /\ traza' = Traza(traza, TrazaPivote(Ms, k, max_fila))
                /\ k' = k + 1
                /\ IF k = n
                   THEN pc' = "back" /\ x' = Ceros(n) /\ fi' = n
                   ELSE pc' = "elim" /\ UNCHANGED <<x, fi>>
                /\ UNCHANGED ret
    /\ UNCHANGED <<arith, fn, P, nexp, jd, Mfp, R, it, idR, idV>>
    /\ UNCHANGED entorno

\* One iteration of the pivot loop (for k in range(n)): search, singularity
\* test, swap, elimination below the pivot.
GaussPivote ==
    /\ pc = "elim"
    /\ LET n == Len(A)
           pv == Pivote(M, k)
           max_fila == pv[1]
           max_valor == pv[2]
           Ms == Intercambiar(M, k, max_fila)
           vs == Intercambiar(v, k, max_fila)
       IN  IF max_valor = Zero
           THEN /\ pc' = "done"
                /\ ret' = Raise(ErrSingular)
                /\ UNCHANGED <<A, b, M, v, k, x, fi, idM, traza>>
           ELSE /\ M' = EliminarM(Ms, k)
                /\ v' = EliminarV(Ms, vs, k)
                /\ idM' = Intercambiar(idM, k, max_fila)
                /\ A' = EscribirFilas(A, M', idM')
                /\ b' = EscribirVector(b, v', idV)
                /\ traza' = Traza(traza, TrazaPivote(Ms, k, max_fila))
                /\ k' = k + 1
                /\ IF k = n
                   THEN pc' = "back" /\ x' = Ceros(n) /\ fi' = n
                   ELSE pc' = "elim" /\ UNCHANGED <<x, fi>>
                /\ UNCHANGED ret
    /\ UNCHANGED <<arith, fn, P, nexp, jd, Mfp, R, it, idR, idV>>
    /\ UNCHANGED entorno

\* Mutation of GaussAtras: the loop is a `while i >= 0` whose index is not
\* decremented.
GaussAtras_SinAvanzar ==
    /\ pc = "back"
    /\ x' = [x EXCEPT ![fi] = Despejar(M, v, x, fi)]
    /\ traza' = Traza(traza, <<"despeje">>)
    /\ UNCHANGED <<arith, fn, P, nexp, A, b, M, v, k, jd, Mfp, R, it, idR, ret>>
    /\ UNCHANGED <<fi, pc, idM, idV>>
    /\ UNCHANGED entorno

\* One iteration of the back-substitution loop (for i in range(n-1,-1,-1)).
GaussAtras ==
    /\ pc = "back"
    /\ x' = [x EXCEPT ![fi] = Despejar(M, v, x, fi)]
    /\ fi' = fi - 1
    /\ pc' = IF fi = 1 THEN "solved" ELSE "back"
    /\ traza' = Traza(traza, <<"despeje">> \o (IF fi = 1 THEN <<"fin">> ELSE <<>>))
    /\ UNCHANGED <<arith, fn, P, nexp, A, b, M, v, k, jd, Mfp, R, it, idR, ret>>
    /\ UNCHANGED <<idM, idV>>
    /\ UNCHANGED entorno

\* return x, to a caller that invoked the solver directly.
ReturnResolver ==
    /\ pc = "solved" /\ fn = "resolver"
    /\ ret' = Value(x)
    /\ pc' = "done"
    /\ UNCHANGED <<arith, fn, P, nexp, A, b, M, v, k, x, fi, jd, Mfp, R, it, idR>>
    /\ UNCHANGED <<traza, idM, idV>>
    /\ UNCHANGED entorno

\* distribucion_estacionaria(P): build the system and hand it to the solver.
CallEstacionaria ==
    /\ pc = "idle" /\ P # <<>>
    /\ fn' = "estacionaria"
    /\ EntrarGauss(SistemaEstacionarioA(P), SistemaEstacionarioB(P), <<"sistema">>)
    /\ UNCHANGED <<arith, P, nexp, jd, Mfp, R, it, idR, ret>>
    /\ UNCHANGED entorno

\* pi = resolver_sistema_lineal(A, b); return pi
ReturnEstacionaria ==
    /\ pc = "solved" /\ fn = "estacionaria"
    /\ ret' = Value(x)
    /\ pc' = "done"
    /\ UNCHANGED <<arith, fn, P, nexp, A, b, M, v, k, x, fi, jd, Mfp, R, it, idR>>
    /\ UNCHANGED <<traza, idM, idV>>
    /\ UNCHANGED entorno

\* tiempos_recurrencia(P): starts with pi = distribucion_estacionaria(P).
CallRecurrencia ==
    /\ pc = "idle" /\ P # <<>>
    /\ fn' = "recurrencia"
    /\ EntrarGauss(SistemaEstacionarioA(P), SistemaEstacionarioB(P), <<"sistema">>)
    /\ UNCHANGED <<arith, P, nexp, jd, Mfp, R, it, idR, ret>>
    /\ UNCHANGED entorno

\* The loop over pi that fills tiempos; return pi, tiempos
ReturnRecurrencia ==
    /\ pc = "solved" /\ fn = "recurrencia"
    /\ ret' = Value(<<x, Tiempos(x)>>)
    /\ pc' = "done"
    /\ UNCHANGED <<arith, fn, P, nexp, A, b, M, v, k, x, fi, jd, Mfp, R, it, idR>>
    /\ UNCHANGED <<traza, idM, idV>>
    /\ UNCHANGED entorno

\* matriz_tiempos_primera_pasad(P): M = zeros; first destination j = 0.
CallPasada ==
    /\ pc = "idle" /\ P # <<>>
    /\ fn' = "pasada"
    /\ Mfp' = [i \in 1..Len(P) |-> Ceros(Len(P))]
    /\ jd' = 1
    /\ EntrarGauss(SistemaPasadaA(P, 1), SistemaPasadaB(P, 1),
                   <<"destino", "sistema">>)
    /\ UNCHANGED <<arith, P, nexp, R, it, idR, ret>>
    /\ UNCHANGED entorno

\* m_col returned for destination j: copy it into column j, then build and
\* solve the next destination's system, or return M after the last one.
ColumnaPasada ==
    /\ pc = "solved" /\ fn = "pasada"
    /\ Mfp' = PonerColumna(Mfp, jd, x)
    /\ IF jd = Len(P)
       THEN /\ ret' = Value(Mfp')
            /\ pc' = "done"
            /\ traza' = Traza(traza, <<"solucion">>)
            /\ UNCHANGED <<A, b, M, v, k, x, fi, jd, idM, idV>>
       ELSE /\ jd' = jd + 1
            /\ EntrarGauss(SistemaPasadaA(P, jd + 1), SistemaPasadaB(P, jd + 1),
                           <<"solucion", "destino", "sistema">>)
            /\ UNCHANGED ret
    /\ UNCHANGED <<arith, fn, P, nexp, R, it, idR>>
    /\ UNCHANGED entorno

\* Mutation of CallPotencia: the check of the sign of n is missing.
CallPotencia_SinValidar ==
    /\ pc = "idle" /\ P # <<>>
    /\ \E n \in -MaxPow..MaxPow :
         /\ nexp' = n
         /\ IF n = 0
            THEN /\ ret' = Value(Identidad(Len(P)))
                 /\ pc' = "done" /\ UNCHANGED <<R, it, idR>>
            ELSE /\ R' = copiar_matriz(P) /\ it' = 0
                 /\ idR' = FilasCopia(P)
                 /\ pc' = "pow" /\ UNCHANGED ret
    /\ fn' = "potencia"
    /\ UNCHANGED <<arith, P, A, b, M, v, k, x, fi, jd, Mfp>>
    /\ UNCHANGED <<traza, idM, idV>>
    /\ UNCHANGED entorno

\* potencia_matriz(P, n): the argument check, the n = 0 case, and the start
\* of the multiplication loop.
CallPotencia ==
    /\ pc = "idle" /\ P # <<>>
    /\ \E n \in -MaxPow..MaxPow :
         /\ nexp' = n
         /\ IF n < 0
            THEN ret' = Raise(ErrNeg) /\ pc' = "done" /\ UNCHANGED <<R, it, idR>>
            ELSE IF n = 0
            THEN /\ ret' = Value(Identidad(Len(P)))
                 /\ pc' = "done" /\ UNCHANGED <<R, it, idR>>
            ELSE /\ R' = copiar_matriz(P) /\ it' = 0
                 /\ idR' = FilasCopia(P)
                 /\ pc' = "pow" /\ UNCHANGED ret
    /\ fn' = "potencia"
    /\ UNCHANGED <<arith, P, A, b, M, v, k, x, fi, jd, Mfp>>
    /\ UNCHANGED <<traza, idM, idV>>
    /\ UNCHANGED entorno

\* Mutation of PotenciaPaso: the loop is `for _ in range(n)`.
PotenciaPaso_UnaDeMas ==
    /\ pc = "pow" /\ it < nexp
    /\ R' = multiplicar_matrices(R, P).val
    /\ idR' = FilasCopia(R)
    /\ it' = it + 1
    /\ UNCHANGED <<arith, fn, P, nexp, A, b, M, v, k, x, fi, jd, Mfp, pc, ret>>
    /\ UNCHANGED <<traza, idM, idV>>
    /\ UNCHANGED entorno

\* for _ in range(n - 1): R = multiplicar_matrices(R, P)
PotenciaPaso ==
    /\ pc = "pow" /\ it < nexp - 1
    /\ R' = multiplicar_matrices(R, P).val
    /\ idR' = FilasCopia(R)
    /\ it' = it + 1
    /\ UNCHANGED <<arith, fn, P, nexp, A, b, M, v, k, x, fi, jd, Mfp, pc, ret>>
    /\ UNCHANGED <<traza, idM, idV>>
    /\ UNCHANGED entorno

\* return R
ReturnPotencia ==
    /\ pc = "pow" /\ it = nexp - 1
    /\ ret' = Value(R)
    /\ pc' = "done"
    /\ UNCHANGED <<arith, fn, P, nexp, A, b, M, v, k, x, fi, jd, Mfp, R, it, idR>>
    /\ UNCHANGED <<traza, idM, idV>>
    /\ UNCHANGED entorno

Next ==
    \/ CallResolver
    \/ GaussPivote
    \/ GaussAtras
    \/ ReturnResolver
    \/ CallEstacionaria
    \/ ReturnEstacionaria
    \/ CallRecurrencia
    \/ ReturnRecurrencia
    \/ CallPasada
    \/ ColumnaPasada
    \/ CallPotencia
    \/ PotenciaPaso
    \/ ReturnPotencia

\* Exact arithmetic: every analysis on every input matrix, and the solver on
\* every small system.
Spec == Init /\ [][Next]_vars

-----------------------------------------------------------------------------
(* Direct calls to the matrix utilities on operands of any shape *)

InitUtil ==
    /\ arith = "exact" /\ verbose = FALSE /\ sesion = "none"
    /\ P = <<>> /\ A = <<>> /\ b = <<>>
    /\ W \in MatricesUtil
    /\ \/ U \in MatricesUtil /\ vec = <<>>
       \/ U = <<>> /\ vec \in VectoresUtil
    /\ InitCommon

\* multiplicar_matrices(U, W): the dimension check, then the triple loop.
CallMultiplicar ==
    /\ pc = "idle" /\ U # <<>>
    /\ fn' = "multiplicar"
    /\ ret' = multiplicar_matrices(U, W)
    /\ pc' = "done"
    /\ UNCHANGED <<arith, P, nexp, A, b, M, v, k, x, fi, jd, Mfp, R, it, idR>>
    /\ UNCHANGED <<traza, idM, idV>>
    /\ UNCHANGED entorno

\* multiplicar_vector_matriz(vec, W): the dimension check, then the double
\* loop.
CallVectorMatriz ==
    /\ pc = "idle" /\ vec # <<>>
    /\ fn' = "vector_matriz"
    /\ ret' = multiplicar_vector_matriz(vec, W)
    /\ pc' = "done"
    /\ UNCHANGED <<arith, P, nexp, A, b, M, v, k, x, fi, jd, Mfp, R, it, idR>>
    /\ UNCHANGED <<traza, idM, idV>>
    /\ UNCHANGED entorno

NextUtil ==
    \/ CallMultiplicar
    \/ CallVectorMatriz

SpecUtil == InitUtil /\ [][NextUtil]_vars

NextFloat ==
    \/ CallResolver
    \/ GaussPivote
    \/ GaussAtras
    \/ ReturnResolver
    \/ CallPotencia
    \/ PotenciaPaso
    \/ ReturnPotencia

\* The solver and the matrix power, under exact and under rounded
\* arithmetic.
SpecFloat == InitFloat /\ [][NextFloat]_vars

-----------------------------------------------------------------------------
(* matriz_tiempos_primera_pasad with the iterations of its loop over the    *)
(* destinations taken in any order and interleaved: the body of the loop    *)
(* for destination j builds its system from P and j, solves it on the       *)
(* solver's own copies, and writes m_col into column j of the shared M one  *)
(* entry at a time.                                                         *)

InitLibre ==
    /\ arith = "exact" /\ verbose = FALSE
    /\ sesion = "none" /\ U = <<>> /\ vec = <<>> /\ W = <<>>
    /\ P \in MatricesEntrada
    /\ A = <<>> /\ b = <<>>
    /\ InitCommon

\* Mutation of PonerEntrada: the value is written into the rest of the row
\* as well (M[i][j:] instead of M[i][j]).
PonerEntrada_RestoDeFila(Mx, i, j, val) ==
    [Mx EXCEPT ![i] = [l \in 1..Len(Mx) |-> IF l >= j THEN val ELSE Mx[i][l]]]

\* M[i][j] = m_col[i]
PonerEntrada(Mx, i, j, val) == [Mx EXCEPT ![i][j] = val]

\* M = zeros(n, n); no destination started.
CallPasadaLibre ==
    /\ pc = "idle" /\ P # <<>>
    /\ fn' = "pasada"
    /\ Mfp' = [i \in 1..Len(P) |-> Ceros(Len(P))]
    /\ tareas' = [j \in 1..Len(P) |->
                    [estado |-> "pendiente", m_col |-> <<>>, i |-> 0]]
    /\ pc' = "libre"
    /\ UNCHANGED <<arith, P, nexp, A, b, M, v, k, x, fi, jd, R, it, idR, ret>>
    /\ UNCHANGED <<traza, idM, idV>>
    /\ UNCHANGED <<verbose, U, vec, W, nEstados, entrada, sesion, cola>>

\* The body of the loop for one destination not yet taken: build A and b,
\* m_col = resolver_sistema_lineal(A, b).  An error of the solver ends the
\* call.
ResolverDestino ==
    /\ pc = "libre"
    /\ \E j \in 1..Len(P) :
         /\ tareas[j].estado = "pendiente"
         /\ LET r == resolver_sistema_lineal(SistemaPasadaA(P, j),
                                             SistemaPasadaB(P, j))
            IN  IF r.kind = "error"
                THEN ret' = r /\ pc' = "done" /\ UNCHANGED tareas
                ELSE /\ tareas' = [tareas EXCEPT ![j] =
                            [estado |-> "resuelto", m_col |-> r.val, i |-> 1]]
                     /\ UNCHANGED <<pc, ret>>
    /\ UNCHANGED <<arith, fn, P, nexp, A, b, M, v, k, x, fi, jd, Mfp, R, it, idR>>
    /\ UNCHANGED <<traza, idM, idV>>
    /\ UNCHANGED <<verbose, U, vec, W, nEstados, entrada, sesion, cola>>

\* One iteration of `for i in range(n): M[i][j] = m_col[i]` for a
\* destination whose system is solved.
EscribirDestino ==
    /\ pc = "libre"
    /\ \E j \in 1..Len(P) :
         /\ tareas[j].estado = "resuelto"
         /\ LET t == tareas[j]
            IN  /\ Mfp' = PonerEntrada(Mfp, t.i, j, t.m_col[t.i])
                /\ tareas' = [tareas EXCEPT ![j] =
                       IF t.i = Len(P)
                       THEN [t EXCEPT !.estado = "escrito"]
                       ELSE [t EXCEPT !.i = t.i + 1]]
    /\ UNCHANGED <<arith, fn, P, nexp, A, b, M, v, k, x, fi, jd, R, it, idR>>
    /\ UNCHANGED <<pc, ret, traza, idM, idV>>
    /\ UNCHANGED <<verbose, U, vec, W, nEstados, entrada, sesion, cola>>

\* return M, once the body has run for every destination.
ReturnPasadaLibre ==
    /\ pc = "libre"
    /\ \A j \in 1..Len(P) : tareas[j].estado = "escrito"
    /\ ret' = Value(Mfp)
    /\ pc' = "done"
    /\ UNCHANGED <<arith, fn, P, nexp, A, b, M, v, k, x, fi, jd, Mfp, R, it, idR>>
    /\ UNCHANGED <<traza, idM, idV>>
    /\ UNCHANGED entorno

NextLibre ==
    \/ CallPasadaLibre
    \/ ResolverDestino
    \/ EscribirDestino
    \/ ReturnPasadaLibre

SpecLibre == InitLibre /\ [][NextLibre]_vars

-----------------------------------------------------------------------------
(* leer_matriz_transicion(): the number of states, then one prompt per     *)
(* line typed.  P holds the rows appended so far, and traza what the       *)
(* handling of the last line printed.                                      *)

\* A token of a typed line: a text float() converts, with its value, or
\* one it does not.
Numero(q) == [num |-> TRUE, val |-> q]
Texto == [num |-> FALSE, val |-> Zero]

\* 1 + 2^-21: nearer to 1 than the 1e-6 of the warning.
CasiUno == <<2097153, 2097152>>

Tokens == {Numero(Zero), Numero(<<1, 2>>), Numero(One), Texto}

\* The lines typed: up to three tokens, and three lines with a token just
\* above 1.
LineasEntrada ==
    UNION {[1..l -> Tokens] : l \in 0..3}
        \cup {<<Numero(CasiUno)>>, <<Numero(CasiUno), Numero(Zero)>>,
               <<Numero(Zero), Numero(CasiUno)>>}

\* The numbers of states typed.
EstadosEntrada == {-1, 0, 1, 2}

\* int() on a text that is not an integer.
ErrEntero == "ValueError: invalid literal for int() with base 10"

\* len(M[0]) in imprimir_matriz on an empty matrix.
ErrIndice == "IndexError: list index out of range"

\* abs(suma - 1.0) > 1e-6
Umbral == <<1, 1000000>>

\* suma = sum(fila)
RECURSIVE SumaFila(_, _)
SumaFila(fila, j) ==
    IF j = 0 THEN Zero ELSE RAdd(SumaFila(fila, j - 1), fila[j])

InitLeer ==
    /\ arith = "exact" /\ verbose = FALSE
    /\ sesion = "none" /\ U = <<>> /\ vec = <<>> /\ W = <<>>
    /\ P = <<>> /\ A = <<>> /\ b = <<>>
    /\ InitCommon

\* n = int(input()); P = [].  A text that is not an integer raises
\* ValueError; with n <= 0 no row is asked for and imprimir_matriz fails on
\* the empty P.
LeerEstados ==
    /\ pc = "idle" /\ fn = "none"
    /\ fn' = "leer"
    /\ \/ \E n \in EstadosEntrada :
            /\ nEstados' = n
            /\ IF n <= 0
               THEN ret' = Raise(ErrIndice) /\ pc' = "done"
               ELSE pc' = "fila" /\ UNCHANGED ret
       \/ /\ ret' = Raise(ErrEntero) /\ pc' = "done"
          /\ UNCHANGED nEstados
    /\ UNCHANGED <<arith, P, nexp, A, b, M, v, k, x, fi, jd, Mfp, R, it, idR>>
    /\ UNCHANGED <<traza, idM, idV>>
    /\ UNCHANGED <<verbose, U, vec, W, tareas, entrada, sesion, cola>>

\* Mutation of LeerFila: a row whose sum is not 1 is refused like a
\* malformed one (`continue` after the warning).
LeerFila_RechazaSuma ==
    /\ pc = "fila"
    /\ \E linea \in LineasEntrada :
         /\ entrada' = linea
         /\ IF Len(linea) # nEstados
            THEN traza' = <<"cantidad">> /\ UNCHANGED <<P, pc, ret>>
            ELSE IF \E j \in 1..Len(linea) : ~linea[j].num
            THEN traza' = <<"no numerico">> /\ UNCHANGED <<P, pc, ret>>
            ELSE LET fila == [j \in 1..Len(linea) |-> Fl(linea[j].val)]
                     suma == SumaFila(fila, Len(fila))
                 IN  IF RGt(RAbs(RSub(suma, One)), Umbral)
                     THEN traza' = <<"advertencia">> /\ UNCHANGED <<P, pc, ret>>
                     ELSE /\ P' = Append(P, fila)
                          /\ IF Len(P') = nEstados
                             THEN /\ traza' = <<"P">>
                                  /\ ret' = Value(P') /\ pc' = "done"
                             ELSE traza' = <<>> /\ UNCHANGED <<pc, ret>>
    /\ UNCHANGED <<arith, fn, nexp, A, b, M, v, k, x, fi, jd, Mfp, R, it, idR>>
    /\ UNCHANGED <<idM, idV>>
    /\ UNCHANGED <<verbose, U, vec, W, tareas, nEstados, sesion, cola>>

\* One line typed at the prompt of row len(P): the count of the tokens,
\* their conversion, the warning about the sum, P.append(fila); after the
\* last row, imprimir_matriz(P) and return P.
LeerFila ==
    /\ pc = "fila"
    /\ \E linea \in LineasEntrada :
         /\ entrada' = linea
         /\ IF Len(linea) # nEstados
            THEN traza' = <<"cantidad">> /\ UNCHANGED <<P, pc, ret>>
            ELSE IF \E j \in 1..Len(linea) : ~linea[j].num
            THEN traza' = <<"no numerico">> /\ UNCHANGED <<P, pc, ret>>
            ELSE LET fila == [j \in 1..Len(linea) |-> Fl(linea[j].val)]
                     suma == SumaFila(fila, Len(fila))
                     aviso == IF RGt(RAbs(RSub(suma, One)), Umbral)
                              THEN <<"advertencia">> ELSE <<>>
                 IN  /\ P' = Append(P, fila)
                     /\ IF Len(P') = nEstados
                        THEN /\ traza' = aviso \o <<"P">>
                             /\ ret' = Value(P') /\ pc' = "done"
                        ELSE traza' = aviso /\ UNCHANGED <<pc, ret>>
    /\ UNCHANGED <<arith, fn, nexp, A, b, M, v, k, x, fi, jd, Mfp, R, it, idR>>
    /\ UNCHANGED <<idM, idV>>
    /\ UNCHANGED <<verbose, U, vec, W, tareas, nEstados, sesion, cola>>

NextLeer ==
    \/ LeerEstados
    \/ LeerFila

SpecLeer == InitLeer /\ [][NextLeer]_vars

-----------------------------------------------------------------------------
(* The first-passage matrix under both arithmetics *)

Dieciseisavos == {Norm(c, 16) : c \in 1..15}

\* Three-state chains whose second state leads to the third, and whose
\* third state leads to the first: the first state either moves between
\* itself and the third only, so that nothing but the second state reaches
\* the second, or reaches both the others.
CadenasFloat ==
    {<<f, <<Zero, (<<1, 2>>), (<<1, 2>>)>>, <<d, Zero, XSub(One, d)>>>> :
        f \in {<<XSub(One, c), Zero, c>> : c \in Dieciseisavos}
               \cup {<<(<<1, 2>>), (<<1, 4>>), (<<1, 4>>)>>},
        d \in Dieciseisavos}

InitCadena ==
    /\ verbose = FALSE
    /\ sesion = "none" /\ U = <<>> /\ vec = <<>> /\ W = <<>>
    /\ \/ arith = "exact" /\ P \in MatricesEntrada
       \/ arith \in {"exact", "float"} /\ \E m \in CadenasFloat : P = Leer(m)
    /\ A = <<>> /\ b = <<>>
    /\ InitCommon

NextCadena ==
    \/ CallPasada
    \/ GaussPivote
    \/ GaussAtras
    \/ ColumnaPasada

SpecCadena == InitCadena /\ [][NextCadena]_vars

-----------------------------------------------------------------------------
(* A call of the solver run to its end: the interpreter executes the next  *)
(* statement of the call whenever there is one.                            *)

\* The systems solved to the end: the 1 x 1 and 2 x 2 systems with entries
\* -1, 0, 2 and the 3 x 3 systems of zeros and ones.
SistemasResolver ==
    UNION {[1..n -> [1..n -> Enteros({-1, 0, 2})]]
             \X [1..n -> Enteros({0, 1})] : n \in {1, 2}}
        \cup ([1..3 -> [1..3 -> Enteros({0, 1})]] \X {<<One, Zero, Zero>>})

InitResolver ==
    /\ arith \in {"exact", "float"}
    /\ verbose = FALSE
    /\ sesion = "none" /\ U = <<>> /\ vec = <<>> /\ W = <<>>
    /\ P = <<>> /\ \E s \in SistemasResolver : A = s[1] /\ b = s[2]
    /\ InitCommon

NextResolver ==
    \/ CallResolver
    \/ GaussPivote
    \/ GaussAtras
    \/ ReturnResolver

SpecResolver == InitResolver /\ [][NextResolver]_vars /\ WF_vars(NextResolver)

-----------------------------------------------------------------------------
(* The interactive menu: menu() and the procedimiento_* functions it calls. *)
(* A prompt is sesion = "menu" with pc = "idle" and nothing left in cola.   *)

InitMenu ==
    /\ arith = "exact" /\ verbose = TRUE
    /\ sesion = "menu"
    /\ P = <<>> /\ A = <<>> /\ b = <<>>
    /\ U = <<>> /\ vec = <<>> /\ W = <<>>
    /\ InitCommon

EnPrompt == sesion = "menu" /\ pc = "idle" /\ cola = <<>>

\* The state of the calls, as it is when no call is in progress.
SinLlamada ==
    /\ fn' = "none" /\ nexp' = 0
    /\ A' = <<>> /\ b' = <<>>
    /\ M' = <<>> /\ v' = <<>> /\ k' = 0 /\ x' = <<>> /\ fi' = 0
    /\ jd' = 0 /\ Mfp' = <<>> /\ R' = <<>> /\ it' = 0 /\ idR' = <<>>
    /\ idM' = <<>> /\ idV' = "v"

\* opcion == "0": break
MenuSalir ==
    /\ EnPrompt
    /\ sesion' = "salida"
    /\ UNCHANGED <<arith, fn, P, nexp, A, b, M, v, k, x, fi, jd, Mfp, R, it, idR, pc,
                   ret, verbose, traza, idM, idV, U, vec, W, tareas, nEstados, entrada, cola>>

\* opcion == "1": P = leer_matriz_transicion().  The number of states is
\* read with int(input()): a text that is not an integer raises ValueError,
\* which nothing catches.
MenuIngresar ==
    /\ EnPrompt
    /\ \/ /\ P' \in MatricesEntrada
          /\ traza' = <<"P">>
          /\ UNCHANGED <<sesion, ret>>
       \/ /\ ret' = Raise(ErrEntero)
          /\ sesion' = "abortada"
          /\ UNCHANGED <<P, traza>>
    /\ UNCHANGED <<arith, fn, nexp, A, b, M, v, k, x, fi, jd, Mfp, R, it, idR, pc,
                   verbose, idM, idV, U, vec, W, tareas, nEstados, entrada, cola>>

\* Any option but "0" and "1" while P is None: a message, and the prompt
\* again.
MenuSinMatriz ==
    /\ EnPrompt /\ P = <<>>
    /\ traza' = <<"primero P">>
    /\ UNCHANGED <<arith, fn, P, nexp, A, b, M, v, k, x, fi, jd, Mfp, R, it, idR, pc,
                   ret, verbose, idM, idV, U, vec, W, tareas, nEstados, entrada, sesion, cola>>

\* An option that is none of "0".."6": a message, and the prompt again.
MenuInvalida ==
    /\ EnPrompt /\ P # <<>>
    /\ traza' = <<"no valida">>
    /\ UNCHANGED <<arith, fn, P, nexp, A, b, M, v, k, x, fi, jd, Mfp, R, it, idR, pc,
                   ret, verbose, idM, idV, U, vec, W, tareas, nEstados, entrada, sesion, cola>>

\* opcion == "2": procedimiento_potencia(P) reads n with int(input()) and
\* calls potencia_matriz(P, n).
MenuPotencia ==
    /\ EnPrompt
    /\ \/ CallPotencia
       \/ /\ P # <<>>
          /\ fn' = "potencia" /\ ret' = Raise(ErrEntero) /\ pc' = "done"
          /\ UNCHANGED <<arith, P, nexp, A, b, M, v, k, x, fi, jd, Mfp, R, it, idR>>
          /\ UNCHANGED <<traza, idM, idV>>
          /\ UNCHANGED entorno

\* Mutation of MenuEstacionaria: option "3" is dispatched without the test
\* `if P is None`.
MenuEstacionaria_SinMatriz ==
    /\ EnPrompt
    /\ fn' = "estacionaria"
    /\ EntrarGauss(SistemaEstacionarioA(P), SistemaEstacionarioB(P), <<"sistema">>)
    /\ UNCHANGED <<arith, P, nexp, jd, Mfp, R, it, idR, ret>>
    /\ UNCHANGED entorno

\* opcion == "3": procedimiento_distribucion_estacionaria(P)
MenuEstacionaria == EnPrompt /\ CallEstacionaria

\* opcion == "4": procedimiento_tiempos_recurrencia(P)
MenuRecurrencia == EnPrompt /\ CallRecurrencia

\* opcion == "5": procedimiento_tiempos_primera_pasad(P)
MenuPasada == EnPrompt /\ CallPasada

\* opcion == "6": procedimiento_completo_markov(P) runs the three
\* procedures one after the other.
MenuCompleto ==
    /\ EnPrompt /\ P # <<>>
    /\ cola' = <<"estacionaria", "recurrencia", "pasada">>
    /\ UNCHANGED <<arith, fn, P, nexp, A, b, M, v, k, x, fi, jd, Mfp, R, it, idR, pc,
                   ret, verbose, traza, idM, idV, U, vec, W, tareas, nEstados, entrada, sesion>>

\* The next procedure of procedimiento_completo_markov starts.
CompletoPaso ==
    /\ sesion = "menu" /\ cola # <<>>
    /\ \/ Head(cola) = "estacionaria" /\ CallEstacionaria
       \/ Head(cola) = "recurrencia" /\ CallRecurrencia
       \/ Head(cola) = "pasada" /\ CallPasada

\* The call returned: the procedure prints the result and returns, to
\* procedimiento_completo_markov if that is running, else to the loop of
\* menu(), which prompts again.
MenuVolver ==
    /\ sesion = "menu" /\ pc = "done" /\ ret.kind = "value"
    /\ SinLlamada
    /\ pc' = "idle" /\ ret' = NoRet /\ traza' = <<>>
    /\ cola' = IF cola = <<>> THEN <<>> ELSE Tail(cola)
    /\ UNCHANGED <<arith, P, verbose, U, vec, W, tareas, nEstados, entrada, sesion>>

\* The call raised: no procedimiento_* and no statement of menu() is inside
\* a try, so the exception leaves menu() and the program ends with a
\* traceback.
MenuAbortar ==
    /\ sesion = "menu" /\ pc = "done" /\ ret.kind = "error"
    /\ sesion' = "abortada"
    /\ UNCHANGED <<arith, fn, P, nexp, A, b, M, v, k, x, fi, jd, Mfp, R, it, idR, pc,
                   ret, verbose, traza, idM, idV, U, vec, W, tareas, nEstados, entrada, cola>>

NextMenu ==
    \/ MenuSalir
    \/ MenuIngresar
    \/ MenuSinMatriz
    \/ MenuInvalida
    \/ MenuPotencia
    \/ MenuEstacionaria
    \/ MenuRecurrencia
    \/ MenuPasada
    \/ MenuCompleto
    \/ CompletoPaso
    \/ GaussPivote
    \/ GaussAtras
    \/ ReturnEstacionaria
    \/ ReturnRecurrencia
    \/ ColumnaPasada
    \/ PotenciaPaso
    \/ ReturnPotencia
    \/ MenuVolver
    \/ MenuAbortar

SpecMenu == InitMenu /\ [][NextMenu]_vars

-----------------------------------------------------------------------------
(* Vocabulary of the properties: real-number linear algebra and the        *)
(* structure of a chain.  Nothing below is rounded.                        *)

RECURSIVE XSuma(_, _)
XSuma(u, i) == IF i = 0 THEN Zero ELSE XAdd(XSuma(u, i - 1), u[i])

\* The real vector A x.
XMatVec(Am, xs) ==
    [i \in 1..Len(Am) |-> XSuma([j \in 1..Len(xs) |-> XMul(Am[i][j], xs[j])], Len(xs))]

\* The real row vector u M.
XVecMat(u, Mx) ==
    [j \in 1..Len(Mx[1]) |-> XSuma([i \in 1..Len(u) |-> XMul(u[i], Mx[i][j])], Len(u))]

\* Mx without its first row and without column c.
Menor(Mx, c) ==
    [i \in 1..(Len(Mx) - 1) |->
       [j \in 1..(Len(Mx) - 1) |-> Mx[i + 1][IF j < c THEN j ELSE j + 1]]]

\* Determinant, by expansion along the first row.
RECURSIVE Det(_)
Det(Mx) ==
    IF Len(Mx) = 1 THEN Mx[1][1]
    ELSE XSuma([c \in 1..Len(Mx) |->
                  XMul(XMul(IF c % 2 = 1 THEN One ELSE <<-1, 1>>, Mx[1][c]),
                       Det(Menor(Mx, c)))],
               Len(Mx))

EsSingular(Mx) == Mx # <<>> /\ Det(Mx) = Zero

TieneFilaNula(Mx) ==
    \E i \in 1..Len(Mx) : \A j \in 1..Len(Mx) : Mx[i][j] = Zero
TieneColumnaNula(Mx) ==
    \E j \in 1..Len(Mx) : \A i \in 1..Len(Mx) : Mx[i][j] = Zero

\* The solver has returned x (to whichever caller), or raised.
SolverReturned == pc = "solved"
SolverRaised == pc = "done" /\ ret = Raise(ErrSingular)

-----------------------------------------------------------------------------
C2_SingularAlwaysRaises ==
    EsSingular(A) => pc \notin {"back", "solved"} /\ ret.kind # "value"

(* C2, amended: a singular A makes the solver raise, and return no vector, *)
(* when the elimination is exact; under rounded arithmetic this is         *)
(* guaranteed for the A with an all-zero row or an all-zero column.        *)
C2_SingularRaises ==
    (EsSingular(A) /\ (arith = "exact" \/ TieneFilaNula(A) \/ TieneColumnaNula(A)))
        => /\ pc \notin {"back", "solved"}
           /\ ret.kind # "value"
           /\ pc = "done" => ret = Raise(ErrSingular)

\* Rounded arithmetic, a 3 x 3 system with a zero row, the error raised at
\* the last pivot step.
C2_Witness ==
    /\ SolverRaised /\ arith = "float" /\ Len(A) = 3
    /\ TieneFilaNula(A) /\ k = 3

-----------------------------------------------------------------------------
(* Structure of a chain *)

EsEstocastica(Pm) ==
    \A i \in 1..Len(Pm) :
       /\ \A j \in 1..Len(Pm) : Pm[i][j][1] >= 0
       /\ XSuma(Pm[i], Len(Pm)) = One

\* i reaches j in zero or more steps of positive probability.
RECURSIVE Cierre(_, _)
Cierre(Rel, kk) ==
    IF kk = 0 THEN Rel
    ELSE LET Rp == Cierre(Rel, kk - 1)
         IN  [i \in 1..Len(Rel) |->
                [j \in 1..Len(Rel) |-> Rp[i][j] \/ (Rp[i][kk] /\ Rp[kk][j])]]

Alcanza(Pm) ==
    Cierre([i \in 1..Len(Pm) |-> [j \in 1..Len(Pm) |-> i = j \/ Pm[i][j] # Zero]],
           Len(Pm))

Irreducible(Pm) == \A i, j \in 1..Len(Pm) : Alcanza(Pm)[i][j]

\* The closed communicating classes: the sets of states a recurrent state
\* reaches.
ClasesCerradas(Pm) ==
    LET Alc == Alcanza(Pm)
        N == 1..Len(Pm)
    IN  {{j \in N : Alc[i][j]} : i \in {h \in N : \A j \in N : Alc[h][j] => Alc[j][h]}}

EsDistribucionEstacionaria(pi, Pm) ==
    /\ Len(pi) = Len(Pm)
    /\ XSuma(pi, Len(pi)) = One
    /\ XVecMat(pi, Pm) = pi

EstacionariaHecha == fn = "estacionaria" /\ pc = "done"

-----------------------------------------------------------------------------
C4_IrreducibleUnique ==
    (EstacionariaHecha /\ EsEstocastica(P) /\ Irreducible(P))
        => /\ ret.kind = "value"
           /\ \A i \in 1..Len(P) : ret.val[i][1] >= 0
           /\ EsDistribucionEstacionaria(ret.val, P)
           /\ Det(A) # Zero

\* An irreducible three-state chain whose stationary vector is not uniform
\* and whose system needed a row swap (the normalisation row is the first
\* pivot, the first balance entry being smaller than 1 in absolute value).
C4_Witness ==
    /\ EstacionariaHecha /\ EsEstocastica(P) /\ Irreducible(P) /\ Len(P) = 3
    /\ ret.kind = "value"
    /\ ret.val[1] # ret.val[2]
    /\ RGt(One, RAbs(A[1][1]))

(* C5, as claimed: a row-stochastic P that is not irreducible makes        *)
(* distribucion_estacionaria fail with the singular-matrix error.          *)
C5_ReducibleRaises ==
    (EstacionariaHecha /\ EsEstocastica(P) /\ ~Irreducible(P))
        => ret = Raise(ErrSingular)

(* C5, amended: for a row-stochastic P, distribucion_estacionaria fails    *)
(* with the singular-matrix error exactly when P has two or more closed    *)
(* classes; a reducible P with a single closed class gets a vector.        *)
C5_RaisesIffSeveralClasses ==
    (EstacionariaHecha /\ EsEstocastica(P))
        => /\ ret = Raise(ErrSingular) <=> Cardinality(ClasesCerradas(P)) >= 2
           /\ ret.kind \in {"value", "error"}

\* A three-state chain with two closed classes and a transient state, for
\* which the error is raised.
C5_Witness ==
    /\ EstacionariaHecha /\ EsEstocastica(P) /\ Len(P) = 3
    /\ Cardinality(ClasesCerradas(P)) = 2
    /\ \E i \in 1..3 : P[i][i] \notin {Zero, One}
    /\ ret = Raise(ErrSingular)

(* C6: tiempos_recurrencia returns (pi, times) with len(times) = len(pi)   *)
(* and, for each state i, times[i] = 1/pi[i] if pi[i] > 0 and the infinite *)
(* sentinel otherwise, so that no returned time is negative.               *)
C6_TimesPositiveOrInf ==
    (fn = "recurrencia" /\ pc = "done" /\ ret.kind = "value")
        => LET pi == ret.val[1]
               tiempos == ret.val[2]
           IN  /\ Len(tiempos) = Len(pi)
               /\ \A i \in 1..Len(pi) :
                    /\ tiempos[i] =
                         IF pi[i][1] > 0 THEN Norm(pi[i][2], pi[i][1]) ELSE Inf
                    /\ tiempos[i][1] >= 0

(* C7: whenever matriz_tiempos_primera_pasad returns a matrix M, M[i][i]   *)
(* is exactly 0 for every state i.                                         *)
C7_ZeroDiagonal ==
    (fn = "pasada" /\ pc = "done" /\ ret.kind = "value")
        => /\ Len(ret.val) = Len(P)
           /\ \A i \in 1..Len(P) : ret.val[i][i] = Zero

\* The matrix returned for a three-state row-stochastic chain, all of whose
\* off-diagonal entries are non-zero.
C7_Witness ==
    /\ fn = "pasada" /\ pc = "done" /\ ret.kind = "value" /\ Len(P) = 3
    /\ EsEstocastica(P)
    /\ \A i, j \in 1..3 : i # j => ret.val[i][j] # Zero

\* 1 + sum over l # j of P[i][l] * M[l][j], as a real number.
PrimerPaso(Pm, Mx, i, j) ==
    XAdd(One,
         XSuma([l \in 1..Len(Pm) |->
                  IF l = j THEN Zero ELSE XMul(Pm[i][l], Mx[l][j])],
               Len(Pm)))

(* C8: for an irreducible row-stochastic P the matrix M returned by        *)
(* matriz_tiempos_primera_pasad satisfies                                  *)
(* M[i][j] = 1 + sum over k # j of P[i][k] M[k][j] for every i # j.        *)
C8_FirstStepRecurrence ==
    (fn = "pasada" /\ pc = "done" /\ EsEstocastica(P) /\ Irreducible(P))
        => /\ ret.kind = "value"
           /\ \A i, j \in 1..Len(P) :
                i # j => ret.val[i][j] = PrimerPaso(P, ret.val, i, j)

\* An irreducible three-state chain with a fractional row and a first-passage
\* time longer than two steps.
C8_Witness ==
    /\ fn = "pasada" /\ pc = "done" /\ ret.kind = "value"
    /\ EsEstocastica(P) /\ Irreducible(P) /\ Len(P) = 3
    /\ \E i, j \in 1..3 : P[i][j] \notin {Zero, One}
    /\ \E i, j \in 1..3 : RGt(ret.val[i][j], <<2, 1>>)

PotenciaHecha == fn = "potencia" /\ pc = "done" /\ nexp >= 0

(* C9: for any square P, potencia_matriz(P, 0) returns the identity matrix *)
(* of the size of P, whatever the entries of P.                            *)
C9_PowerZeroIsIdentity ==
    (PotenciaHecha /\ nexp = 0)
        => /\ ret.kind = "value"
           /\ Len(ret.val) = Len(P)
           /\ \A i \in 1..Len(P) :
                /\ Len(ret.val[i]) = Len(P)
                /\ \A j \in 1..Len(P) :
                     ret.val[i][j] = IF i = j THEN One ELSE Zero

\* The zeroth power of a 3 x 3 matrix that is not row-stochastic and has no
\* entry of the identity right.
C9_Witness ==
    /\ PotenciaHecha /\ nexp = 0 /\ Len(P) = 3
    /\ ~EsEstocastica(P)
    /\ \A i, j \in 1..3 : P[i][j] # (IF i = j THEN One ELSE Zero)

\* multiplicar_matrices(potencia_matriz(P, a), potencia_matriz(P, c))
ProductoDePotencias(Pm, a, c) ==
    multiplicar_matrices(potencia_matriz(Pm, a).val, potencia_matriz(Pm, c).val).val

(* C10, as claimed: potencia_matriz(P, a+b) equals                         *)
(* multiplicar_matrices(potencia_matriz(P, a), potencia_matriz(P, b)) for  *)
(* all non-negative a and b.                                               *)
C10_PowerOfSum ==
    PotenciaHecha
        => \A a \in 0..nexp : ret.val = ProductoDePotencias(P, a, nexp - a)

(* C10, amended: the two are equal when the arithmetic is exact; in        *)
(* rounded arithmetic they are equal when a = 0, b = 0 or b = 1, and       *)
(* otherwise only up to rounding.                                          *)
C10_PowerOfSumExact ==
    PotenciaHecha
        => \A a \in 0..nexp :
              (arith = "exact" \/ a = 0 \/ nexp - a <= 1)
                  => ret.val = ProductoDePotencias(P, a, nexp - a)

\* The cube, in rounded arithmetic, of a two-state transition matrix whose
\* stored rows no longer add up to 1: it differs from P * P^2 (a = 1, b = 2)
\* and equals P^2 * P (a = 2, b = 1).
C10_Witness ==
    /\ PotenciaHecha /\ nexp = 3 /\ Len(P) = 2
    /\ arith = "float" /\ ~EsEstocastica(P)
    /\ \E i, j \in 1..2 : P[i][j] \notin {Zero, One}
    /\ ret.val # ProductoDePotencias(P, 1, 2)
    /\ ret.val = ProductoDePotencias(P, 2, 1)

-----------------------------------------------------------------------------
(* C11: potencia_matriz(P, n) with n < 0 fails with the invalid-argument    *)
(* error for every P, before any matrix is built or multiplied, and        *)
(* returns no matrix.                                                      *)
C11_NegativeRaises ==
    (fn = "potencia" /\ nexp < 0)
        => /\ pc = "done"
           /\ ret = Raise(ErrNeg)
           /\ R = <<>> /\ it = 0

\* The error raised for n = -2 and a 3 x 3 matrix whose rows do not add up
\* to 1.
C11_Witness ==
    /\ fn = "potencia" /\ nexp = -2 /\ pc = "done"
    /\ Len(P) = 3 /\ ~EsEstocastica(P)
    /\ ret.kind = "error"

-----------------------------------------------------------------------------
\* The real product of row i of Am and column j of Bm.
XProducto(Am, Bm, i, j) ==
    XSuma([l \in 1..Cols(Am) |-> XMul(Am[i][l], Bm[l][j])], Cols(Am))

(* C12: multiplicar_matrices(A, B) fails with the dimension-mismatch error *)
(* exactly when columns(A) # rows(B), and then produces nothing; otherwise *)
(* it returns a rows(A) x columns(B) matrix R with                         *)
(* R[i][j] = sum over k of A[i][k] * B[k][j].                              *)
C12_ProductOrMismatch ==
    (fn = "multiplicar" /\ pc = "done")
        => IF Cols(U) # Rows(W)
           THEN ret = Raise(ErrDim) /\ ret.val = <<>>
           ELSE /\ ret.kind = "value"
                /\ Len(ret.val) = Rows(U)
                /\ \A i \in 1..Rows(U) :
                     /\ Len(ret.val[i]) = Cols(W)
                     /\ \A j \in 1..Cols(W) :
                          ret.val[i][j] = XProducto(U, W, i, j)

\* The product of a 1 x 2 by a 2 x 1 matrix, its two terms 4 and -2.
C12_Witness ==
    /\ fn = "multiplicar" /\ pc = "done" /\ ret.kind = "value"
    /\ Rows(U) = 1 /\ Cols(U) = 2 /\ Cols(W) = 1
    /\ \A l \in 1..2 : U[1][l] # Zero /\ W[l][1] # Zero
    /\ ret.val = <<<<(<<2, 1>>)>>>>

-----------------------------------------------------------------------------
(* C19: multiplicar_vector_matriz(v, M) fails with the dimension error     *)
(* exactly when len(v) # rows(M); otherwise it returns a vector of length  *)
(* columns(M) with result[j] = sum over i of v[i] * M[i][j].               *)
C19_VectorProductOrMismatch ==
    (fn = "vector_matriz" /\ pc = "done")
        => IF Len(vec) # Rows(W)
           THEN ret = Raise(ErrDimVector)
           ELSE /\ ret.kind = "value"
                /\ Len(ret.val) = Cols(W)
                /\ \A j \in 1..Cols(W) :
                     ret.val[j] =
                        XSuma([i \in 1..Len(vec) |-> XMul(vec[i], W[i][j])],
                              Len(vec))

\* A vector of two non-zero components times a 2 x 2 matrix without zeros,
\* the two components of the result different.
C19_Witness ==
    /\ fn = "vector_matriz" /\ pc = "done" /\ ret.kind = "value"
    /\ Len(vec) = 2 /\ Cols(W) = 2
    /\ \A i, j \in 1..2 : vec[i] # Zero /\ W[i][j] # Zero
    /\ ret.val[1] # ret.val[2] /\ ret.val[1] # Zero

-----------------------------------------------------------------------------
(* C13: caller-owned data is never mutated: no step of                     *)
(* resolver_sistema_lineal changes the caller's A or b, whether the call   *)
(* goes on to return or to raise the singular error, and no step of        *)
(* distribucion_estacionaria, tiempos_recurrencia,                         *)
(* matriz_tiempos_primera_pasad or potencia_matriz changes the caller's P. *)
C13_CallerDataUnchanged ==
    [][/\ P' = P
       /\ fn' = "resolver" => A' = A /\ b' = b]_vars

\* A 2 x 2 system handed to the solver whose working copy had its rows
\* swapped and its second row changed before the error was raised at the
\* second pivot.
C13_Witness ==
    /\ fn = "resolver" /\ Len(A) = 2
    /\ ret = Raise(ErrSingular) /\ k = 2
    /\ M[1] = A[2] /\ M[2] # A[1] /\ A[1] # A[2]
    /\ v # b

-----------------------------------------------------------------------------
\* What the call made returns or raises, as a function of its arguments
\* alone.
Resultado ==
    CASE fn = "resolver"     -> resolver_sistema_lineal(A, b)
      [] fn = "estacionaria" -> distribucion_estacionaria(P)
      [] fn = "recurrencia"  -> tiempos_recurrencia(P)
      [] fn = "pasada"       -> matriz_tiempos_primera_pasad(P)

ConTraza == fn \in {"resolver", "estacionaria", "recurrencia", "pasada"}

(* C14: tracing does not affect results: resolver_sistema_lineal,          *)
(* distribucion_estacionaria, tiempos_recurrencia and                      *)
(* matriz_tiempos_primera_pasad end, with verbose = True as with           *)
(* verbose = False, with the value or the error that their arguments       *)
(* alone determine; and nothing is printed with verbose = False.           *)
C14_VerboseSameResult ==
    /\ (ConTraza /\ pc = "done") => ret = Resultado
    /\ ~verbose => traza = <<>>

\* A verbose first-passage computation on a 3 x 3 chain that returned, one
\* of its systems having needed a row swap.
C14_Witness ==
    /\ fn = "pasada" /\ pc = "done" /\ verbose /\ Len(P) = 3
    /\ ret.kind = "value"
    /\ \E i \in 1..Len(traza) : traza[i] = "intercambio"

-----------------------------------------------------------------------------
\* Some linear system the analysis fn builds from P is singular.
SistemaSingular ==
    CASE fn \in {"estacionaria", "recurrencia"} ->
           EsSingular(SistemaEstacionarioA(P))
      [] fn = "pasada" ->
           \E j \in 1..Len(P) : EsSingular(SistemaPasadaA(P, j))
      [] OTHER -> FALSE

(* C15: a singular-matrix failure inside the solver propagates unchanged   *)
(* through distribucion_estacionaria, tiempos_recurrencia and              *)
(* matriz_tiempos_primera_pasad: a call that builds a singular system ends *)
(* with the solver's error, never with a value (first-passage returns no   *)
(* matrix if any one of its column systems is singular), the error is      *)
(* raised at the first singular system met, and no value is set before     *)
(* the call ends.                                                          *)
C15_SingularPropagates ==
    /\ (pc = "done" /\ SistemaSingular) => ret = Raise(ErrSingular)
    /\ (ret = Raise(ErrSingular) /\ fn = "pasada")
          => EsSingular(SistemaPasadaA(P, jd))
    /\ pc # "done" => ret = NoRet

\* First passage on a 3 x 3 chain: the error raised by the system of the
\* second destination, the first column of the matrix already filled.
C15_Witness ==
    /\ fn = "pasada" /\ pc = "done" /\ Len(P) = 3
    /\ ret = Raise(ErrSingular) /\ jd = 2
    /\ \E i \in 1..3 : Mfp[i][1] # Zero

-----------------------------------------------------------------------------
(* C16: in the interactive menu, any error raised by a computation started *)
(* from a menu option is caught by the menu layer and reported as a        *)
(* message, and the menu loop then shows the next prompt instead of        *)
(* terminating the session.                                                *)
C16_ErrorsCaught ==
    [][(sesion = "menu" /\ pc = "done" /\ ret.kind = "error")
          => (sesion' = "menu" /\ pc' = "idle")]_vars

-----------------------------------------------------------------------------
(* C17: for P = [[0.5, 0.5], [0.2, 0.8]], distribucion_estacionaria        *)
(* returns pi = [2/7, 5/7] and tiempos_recurrencia returns that pi with    *)
(* the recurrence times 3.5 for state 0 and 1.4 for state 1.               *)
C17_TwoStateScenario ==
    (pc = "done" /\ P = Escenario2Estados)
        => /\ fn = "estacionaria" => ret = Value(<<(<<2, 7>>), (<<5, 7>>)>>)
           /\ fn = "recurrencia"
                => ret = Value(<<<<(<<2, 7>>), (<<5, 7>>)>>,
                                 <<(<<7, 2>>), (<<7, 5>>)>>>>)

\* tiempos_recurrencia has returned for the two-state chain.
C17_Witness ==
    /\ pc = "done" /\ P = Escenario2Estados /\ fn = "recurrencia"
    /\ ret.kind = "value" /\ Len(ret.val[2]) = 2

(* C18: for the 3-state cycle P = [[0,1,0],[0,0,1],[1,0,0]],               *)
(* distribucion_estacionaria returns [1/3, 1/3, 1/3] and                   *)
(* tiempos_recurrencia returns recurrence time 3 for every state: the      *)
(* solver does not fail, the diagonal of P being zero.                     *)
C18_CycleScenario ==
    (pc = "done" /\ P = EscenarioCiclo)
        => /\ fn = "estacionaria"
                => ret = Value(<<(<<1, 3>>), (<<1, 3>>), (<<1, 3>>)>>)
           /\ fn = "recurrencia"
                => ret = Value(<<<<(<<1, 3>>), (<<1, 3>>), (<<1, 3>>)>>,
                                 <<(<<3, 1>>), (<<3, 1>>), (<<3, 1>>)>>>>)

\* tiempos_recurrencia has returned for the cycle, in a verbose call.
C18_Witness ==
    /\ pc = "done" /\ P = EscenarioCiclo /\ fn = "recurrencia"
    /\ ret.kind = "value" /\ Len(ret.val[2]) = 3 /\ verbose

-----------------------------------------------------------------------------
\* Row r of Mx holds a largest absolute value of column kk among the rows
\* kk..n.
EsMaximo(Mx, kk, r) ==
    \A i \in kk..Len(Mx) : ~RGt(RAbs(Mx[i][kk]), RAbs(Mx[r][kk]))

\* The lowest-index such row.
PrimerMaximo(Mx, kk) ==
    CHOOSE r \in kk..Len(Mx) :
        /\ EsMaximo(Mx, kk, r)
        /\ \A i \in kk..(r - 1) : ~EsMaximo(Mx, kk, i)

(* C20: at every pivot step k of resolver_sistema_lineal that goes on to   *)
(* eliminate, the row moved into position k is the lowest-index row among  *)
(* k..n-1 whose entry in column k has the largest absolute value; it       *)
(* changes places with row k, every other row stays where it is, and       *)
(* nothing moves if row k itself is a maximum.                             *)
C20_PivotRule ==
    [][(pc = "elim" /\ pc' \in {"elim", "back"})
          => LET r == PrimerMaximo(M, k)
             IN  /\ M'[k] = M[r] /\ v'[k] = v[r]
                 /\ idM' = [idM EXCEPT ![k] = idM[r], ![r] = idM[k]]
                 /\ EsMaximo(M, k, k) => idM' = idM]_vars

\* After the first pivot step of a 3 x 3 system in whose first column the
\* second and third rows tie for the maximum and the first row is smaller:
\* the second row is now the first.
C20_Witness ==
    /\ pc = "elim" /\ k = 2 /\ Len(A) = 3
    /\ RAbs(A[2][1]) = RAbs(A[3][1])
    /\ RGt(RAbs(A[2][1]), RAbs(A[1][1]))
    /\ M[1] = A[2] /\ idM = <<5, 4, 6>>

-----------------------------------------------------------------------------
\* Column kk of Mx is zero from row kk down.
ColumnaNulaDesde(Mx, kk) == \A i \in kk..Len(Mx) : Mx[i][kk] = Zero

(* C21: resolver_sistema_lineal raises the singular-matrix error at pivot  *)
(* step k exactly when every entry of column k in rows k..n-1 of the       *)
(* working matrix is zero; it raises before the swap and the elimination   *)
(* of that step (the working copies are as the step found them), and on    *)
(* any other column, however small its largest entry, the step eliminates  *)
(* and goes on to the next one.                                            *)
C21_RaisesIffZeroColumn ==
    [][pc = "elim"
          => /\ (pc' = "done" /\ ret' = Raise(ErrSingular))
                    <=> ColumnaNulaDesde(M, k)
             /\ ColumnaNulaDesde(M, k)
                    => M' = M /\ v' = v /\ idM' = idM /\ k' = k
             /\ ~ColumnaNulaDesde(M, k)
                    => pc' \in {"elim", "back"} /\ k' = k + 1 /\ ret' = ret]_vars

\* Under rounded arithmetic, a 3 x 3 system whose matrix is singular has
\* passed all three pivot steps: the last pivot was a rounding residue.
C21_Witness ==
    /\ arith = "float" /\ fn = "resolver" /\ pc = "back"
    /\ Len(A) = 3 /\ EsSingular(A)
    /\ M[3][3] # Zero

-----------------------------------------------------------------------------
\* The first c columns of Mx are those of an upper triangular matrix with a
\* non-zero diagonal.
TriangularHasta(Mx, c) ==
    \A j \in 1..c :
       /\ Mx[j][j] # Zero
       /\ \A i \in (j + 1)..Len(Mx) : Mx[i][j] = Zero

(* C22: in exact arithmetic, once forward elimination of                   *)
(* resolver_sistema_lineal has completed without raising, the working      *)
(* matrix is upper triangular with a non-zero diagonal (and, during        *)
(* elimination, so are the columns already processed), so the divisions by *)
(* M[k][k] of the elimination factor and by M[i][i] of back-substitution   *)
(* never divide by zero.                                                   *)
C22_UpperTriangular ==
    /\ pc = "elim" => TriangularHasta(M, k - 1)
    /\ pc \in {"back", "solved"} => TriangularHasta(M, Len(M))

\* Back-substitution under way on a 3 x 3 system whose first pivot step
\* exchanged rows and whose eliminations cleared two entries of a row that
\* had none equal to zero.
C22_Witness ==
    /\ pc = "back" /\ fi = 2
    /\ Len(A) = 3 /\ idM[1] # 4
    /\ \A j \in 1..3 : A[idM[3] - 3][j] # Zero
    /\ M[3][1] = Zero /\ M[3][2] = Zero

-----------------------------------------------------------------------------
\* What the solver returns for destination j of P.
SolucionDestino(Pm, j) ==
    resolver_sistema_lineal(SistemaPasadaA(Pm, j), SistemaPasadaB(Pm, j))

\* Entry (i, j) of the shared matrix has been written.
Escrita(i, j) ==
    \/ tareas[j].estado = "escrito"
    \/ tareas[j].estado = "resuelto" /\ i < tareas[j].i

(* C23: with the destinations of matriz_tiempos_primera_pasad solved in    *)
(* any order and their steps interleaved, every entry of M written so far  *)
(* is the entry of the column solved for its destination and every other   *)
(* entry is still zero, and the call ends as the loop j = 0..n-1 ends:     *)
(* with the same matrix, whose column j is what the solver returns for the *)
(* system of P and j, or with an error exactly when the sequential loop    *)
(* raises.                                                                 *)
C23_OrderIndependent ==
    (fn = "pasada" /\ pc \in {"libre", "done"})
        => /\ \A i, j \in 1..Len(P) :
                 Mfp[i][j] = IF Escrita(i, j) THEN tareas[j].m_col[i] ELSE Zero
           /\ pc = "done"
                 => LET sec == matriz_tiempos_primera_pasad(P)
                    IN  /\ ret.kind = sec.kind
                        /\ ret.kind = "value"
                              => /\ ret = sec
                                 /\ \A j \in 1..Len(P) :
                                       Columna(ret.val, j)
                                          = SolucionDestino(P, j).val

\* A three-state chain whose third destination was solved first and is
\* written, whose second is half written, and whose first is still to be
\* solved.
C23_Witness ==
    /\ fn = "pasada" /\ pc = "libre" /\ Len(P) = 3
    /\ tareas[1].estado = "pendiente"
    /\ tareas[2].estado = "resuelto" /\ tareas[2].i = 2
    /\ tareas[3].estado = "escrito"
    /\ Mfp[1][2] # Zero /\ Mfp[1][3] # Zero /\ Mfp[2][3] # Mfp[1][3]

-----------------------------------------------------------------------------
\* The chain of two states whose first state is absorbing and whose second
\* is transient: [[1, 0], [0.5, 0.5]].
EscenarioTransitorio == <<<<One, Zero>>, <<(<<1, 2>>), (<<1, 2>>)>>>>

(* C24: tiempos_recurrencia fails only where distribucion_estacionaria     *)
(* fails; when the stationary vector is computed, a state whose            *)
(* probability is exactly zero gets the infinite value and every other     *)
(* state the finite value 1/pi[i].  For P = [[1, 0], [0.5, 0.5]] the       *)
(* result is pi = [1, 0] with times [1, inf].                              *)
C24_ZeroProbabilityIsInfinite ==
    (fn = "recurrencia" /\ pc = "done")
        => /\ ret.kind = distribucion_estacionaria(P).kind
           /\ ret.kind = "value"
                 => LET pi == ret.val[1]
                        tiempos == ret.val[2]
                    IN  /\ pi = distribucion_estacionaria(P).val
                        /\ Len(tiempos) = Len(P)
                        /\ \A i \in 1..Len(P) :
                              IF pi[i] = Zero
                              THEN tiempos[i] = Inf
                              ELSE /\ tiempos[i] # Inf
                                   /\ XMul(tiempos[i], pi[i]) = One
           /\ P = EscenarioTransitorio
                 => ret = Value(<<(<<One, Zero>>), (<<One, Inf>>)>>)

\* tiempos_recurrencia has returned for the chain with the transient
\* state, the second time being infinite.
C24_Witness ==
    /\ fn = "recurrencia" /\ pc = "done" /\ ret.kind = "value"
    /\ P = EscenarioTransitorio
    /\ ret.val[1][2] = Zero /\ ret.val[2][2] = Inf

-----------------------------------------------------------------------------
\* The line has the wrong number of tokens or a token that is no number.
LineaMalformada(linea, n) ==
    \/ Len(linea) # n
    \/ \E j \in 1..Len(linea) : ~linea[j].num

\* The real sum of the numbers of a line differs from 1 by more than 1e-6.
SumaLejosDeUno(linea) ==
    LET d == XSub(XSuma([j \in 1..Len(linea) |-> linea[j].val], Len(linea)), One)
    IN  Abs(d[1]) * 1000000 > d[2]

(* C25: at the prompt of a row, leer_matriz_transicion refuses the line    *)
(* typed and asks for the same row again exactly when the line does not    *)
(* have n tokens or has a token that is not a number; any other line is    *)
(* appended to P as the next row, with a warning exactly when its sum      *)
(* differs from 1 by more than 1e-6.  The function returns after the n-th  *)
(* accepted row, and the P returned has n rows of n numbers each.          *)
C25_RowsAccepted ==
    [][pc = "fila"
          => LET mal == LineaMalformada(entrada', nEstados)
             IN  /\ mal <=> (P' = P /\ pc' = "fila")
                 /\ mal => traza' \in {<<"cantidad">>, <<"no numerico">>}
                 /\ ~mal
                      => /\ P' = Append(P, [j \in 1..nEstados |->
                                               entrada'[j].val])
                         /\ SumaLejosDeUno(entrada')
                               <=> (traza' # <<>> /\ Head(traza') = "advertencia")
                 /\ pc' = "done" <=> (~mal /\ Len(P) = nEstados - 1)
                 /\ pc' = "done"
                      => /\ ret' = Value(P')
                         /\ Len(P') = nEstados
                         /\ \A i \in 1..nEstados : Len(P'[i]) = nEstados]_vars

\* Returned with n = 2: the first row accepted is [1, 1] and the last row
\* typed, [0, 0], was accepted with the warning.
C25_Witness ==
    /\ fn = "leer" /\ pc = "done" /\ nEstados = 2
    /\ ret = Value(<<(<<One, One>>), (<<Zero, Zero>>)>>)
    /\ traza = <<"advertencia", "P">>

-----------------------------------------------------------------------------
\* The real product of n factors Pm, n >= 1.
RECURSIVE XPotencia(_, _)
XPotencia(Pm, n) ==
    IF n = 1 THEN Pm
    ELSE LET Q == XPotencia(Pm, n - 1)
         IN  [i \in 1..Len(Pm) |-> [j \in 1..Len(Pm) |-> XProducto(Q, Pm, i, j)]]

\* No row of the accumulator is a row object of the caller's P.
FilasPropias == \A i \in 1..Len(idR) : idR[i] \notin 1..Len(P)

Permutacion2 == <<<<Zero, One>>, <<One, Zero>>>>

(* C26: for n >= 1, potencia_matriz(P, n) starts from a copy of P and      *)
(* multiplies it on the right by P exactly n - 1 times: after m            *)
(* multiplications the accumulator is the product of m + 1 factors P, the  *)
(* call returns after n - 1 of them with the product of n factors, and the *)
(* rows of what it returns are never row objects of P.  For n = 1 the      *)
(* result equals P, and the square of [[0, 1], [1, 0]] is the identity.    *)
C26_PowerIsRepeatedProduct ==
    (fn = "potencia" /\ nexp >= 1)
        => /\ pc = "pow"
                 => it <= nexp - 1 /\ R = XPotencia(P, it + 1) /\ FilasPropias
           /\ pc = "done"
                 => /\ it = nexp - 1
                    /\ ret = Value(XPotencia(P, nexp))
                    /\ ret.val = R /\ FilasPropias
                    /\ nexp = 1 => ret.val = P
                    /\ (P = Permutacion2 /\ nexp = 2)
                          => ret.val = <<(<<One, Zero>>), (<<Zero, One>>)>>

\* potencia_matriz([[0, 1], [1, 0]], 2) has returned after one
\* multiplication.
C26_Witness ==
    /\ fn = "potencia" /\ pc = "done" /\ nexp = 2 /\ it = 1
    /\ P = Permutacion2
    /\ ret.val # P /\ idR = <<3, 4>>

-----------------------------------------------------------------------------
\* Some state does not reach destination j.
Inalcanzable(Pm, j) == \E i \in 1..Len(Pm) : ~Alcanza(Pm)[i][j]

(* C27, as claimed: for a row-stochastic P, matriz_tiempos_primera_pasad   *)
(* returns a matrix exactly when the chain is irreducible; if some state   *)
(* cannot reach some destination the call raises the singular-matrix       *)
(* error, whatever the arithmetic.                                         *)
C27_ReturnsIffIrreducible ==
    (fn = "pasada" /\ pc = "done" /\ EsEstocastica(P))
        => /\ ret.kind = "value" <=> Irreducible(P)
           /\ ret.kind = "error" => ret = Raise(ErrSingular)

(* C27, amended: when the elimination is exact, for a row-stochastic P     *)
(* matriz_tiempos_primera_pasad(P) returns a matrix exactly when the chain *)
(* is irreducible, and its entries are then finite; otherwise it raises    *)
(* the singular-matrix error, while solving the system of the first        *)
(* destination that some state cannot reach.                               *)
C27_ReturnsIffIrreducibleExact ==
    (fn = "pasada" /\ pc = "done" /\ EsEstocastica(P) /\ arith = "exact")
        => /\ ret.kind = "value" <=> Irreducible(P)
           /\ ret.kind = "value"
                 => \A i, j \in 1..Len(P) : ret.val[i][j] # Inf
           /\ ret.kind = "error"
                 => /\ ret = Raise(ErrSingular)
                    /\ Inalcanzable(P, jd)
                    /\ \A j \in 1..(jd - 1) : ~Inalcanzable(P, j)

\* Exact arithmetic: the call has raised on the third destination of a
\* three-state chain; every state reaches the first two states, and some
\* state does not reach the third.
C27_Witness ==
    /\ fn = "pasada" /\ pc = "done" /\ EsEstocastica(P) /\ arith = "exact"
    /\ Len(P) = 3 /\ jd = 3
    /\ ret = Raise(ErrSingular)
    /\ Mfp[2][1] # Zero /\ Mfp[1][2] # Zero

-----------------------------------------------------------------------------
\* The computation in progress, if any, works on the matrix P now held by
\* the menu, and what it returned is the result for that P.
MatrizVigente ==
    /\ (fn \in {"estacionaria", "recurrencia"})
          => A = SistemaEstacionarioA(P)
    /\ fn = "pasada" => A = SistemaPasadaA(P, jd)
    /\ (fn = "potencia" /\ pc = "pow") => R = potencia_matriz(P, it + 1).val
    /\ (fn = "potencia" /\ pc = "done" /\ ret # Raise(ErrEntero))
          => ret = potencia_matriz(P, nexp)
    /\ (ConTraza /\ pc = "done") => ret = Resultado

\* The menu printed the notice and prompts again, nothing else changed.
SoloAviso ==
    /\ traza' = <<"primero P">>
    /\ UNCHANGED <<arith, fn, P, nexp, A, b, M, v, k, x, fi, jd, Mfp, R, it, idR,
                   pc, ret, verbose, idM, idV, sesion, cola>>

(* C28: in the menu no computation is invoked while no matrix has been     *)
(* entered: at a prompt with P unset a step is the exit of option "0",     *)
(* the reading of a matrix of option "1" (or its failure), or the notice   *)
(* "enter P first" with nothing else changed; option "0" is available at   *)
(* every prompt and only ends the loop; P changes only by option "1" at a  *)
(* prompt, and every computation works on, and returns the result for,     *)
(* the P held at that time.                                                *)
C28_MenuNeedsMatrix ==
    /\ [](sesion # "none"
            => (/\ (P = <<>>) => (fn = "none" /\ pc = "idle" /\ cola = <<>>)
                /\ MatrizVigente
                /\ EnPrompt => (ENABLED MenuSalir)))
    /\ [][/\ (EnPrompt /\ P = <<>>)
              => (\/ sesion' = "salida" /\ P' = P
                  \/ sesion' = "menu" /\ P' # <<>> /\ EnPrompt'
                  \/ sesion' = "abortada" /\ ret' = Raise(ErrEntero) /\ P' = P
                  \/ SoloAviso)
          /\ (P' # P) => (EnPrompt /\ EnPrompt' /\ P' # <<>>)
          /\ (sesion' = "salida")
              => (EnPrompt /\ UNCHANGED <<P, fn, pc, ret, traza>>)]_vars

\* The menu is at a prompt with no matrix entered, after an option other
\* than "0" and "1": the notice is what it printed last.
C28_Witness ==
    /\ EnPrompt /\ P = <<>>
    /\ traza = <<"primero P">>
    /\ fn = "none" /\ ret = NoRet

-----------------------------------------------------------------------------
\* The position, before the step, of the row object a pivot step leaves at
\* position i.
PosicionAnterior(i) == CHOOSE q \in 1..Len(idM) : idM[q] = idM'[i]

(* C29: at every pivot step k of resolver_sistema_lineal that eliminates,  *)
(* the pivot M[k][k] left by the swap is an entry of column k among rows   *)
(* k..n-1 of largest absolute value, and so the factor M[i][k] / M[k][k]   *)
(* computed for every row i below it has absolute value at most 1, under   *)
(* exact and under rounded arithmetic.                                     *)
C29_FactorAtMostOne ==
    [][(pc = "elim" /\ pc' \in {"elim", "back"})
          => /\ \A i \in k..Len(M) :
                   ~RGt(RAbs(M[i][k]), RAbs(M'[k][k]))
             /\ \A i \in (k + 1)..Len(M) :
                   ~RGt(RAbs(RDiv(M[PosicionAnterior(i)][k], M'[k][k])), One)]_vars

\* Rounded arithmetic: after the first pivot step of a 3 x 3 system that
\* exchanged rows, a row below the pivot was reduced with a factor that is
\* neither 0 nor of absolute value 1.
C29_Witness ==
    /\ arith = "float" /\ fn = "resolver" /\ pc = "elim" /\ k = 2
    /\ Len(A) = 3 /\ idM[1] # 4
    /\ A[1][1] # Zero
    /\ RGt(RAbs(M[1][1]), RAbs(A[1][1]))

-----------------------------------------------------------------------------
\* Where a call of the solver on an n x n system can be: at pivot step k
\* of 1..n with no solution vector yet; at back-substitution step fi of
\* n..1 after n pivot steps; or ended, by a vector of length n after n
\* steps of each kind, or by the error at one of the n pivot steps.
PasosAcotados ==
    LET n == Len(A)
    IN  /\ pc = "elim" => (k \in 1..n /\ x = <<>> /\ ret = NoRet)
        /\ pc = "back" => (k = n + 1 /\ fi \in 1..n /\ ret = NoRet)
        /\ pc = "solved" => (k = n + 1 /\ fi = 0 /\ Len(x) = n /\ ret = NoRet)
        /\ pc = "done"
              => \/ ret = Value(x) /\ Len(x) = n /\ k = n + 1 /\ fi = 0
                 \/ ret = Raise(ErrSingular) /\ k \in 1..n /\ x = <<>>

(* C30: resolver_sistema_lineal terminates on every n x n system: every    *)
(* pivot step either raises the singular-matrix error or moves to the next *)
(* of at most n columns, every back-substitution step moves one row up     *)
(* from row n-1 to row 0, and every call ends, either with a vector of     *)
(* length n or with the error, never with both or neither.                 *)
C30_Terminates ==
    /\ [](fn = "resolver" => PasosAcotados)
    /\ [][/\ pc = "elim"
              => (\/ pc' = "done" /\ ret' = Raise(ErrSingular)
                  \/ k' = k + 1 /\ pc' = IF k = Len(A) THEN "back" ELSE "elim")
          /\ pc = "back"
              => (fi' = fi - 1 /\ pc' = IF fi = 1 THEN "solved" ELSE "back")]_vars
    /\ (pc = "idle") ~> (pc = "done" /\ ret.kind \in {"value", "error"})

\* A 3 x 3 system whose solve has ended with a vector, after three pivot
\* steps and three back-substitution steps.
C30_Witness ==
    /\ fn = "resolver" /\ pc = "done" /\ Len(A) = 3
    /\ ret.kind = "value" /\ Len(ret.val) = 3
    /\ k = 4 /\ fi = 0

====
